---- MODULE Spec2Model ----
(***************************************************************************)
(* Front end of the SnowFall compiler (src/wasm/src): the byte-driven      *)
(* lexer, the Pratt parser and the AST normalizer, modelled as operators   *)
(* over explicit state records, and the entry points of lib.rs as the      *)
(* actions of two state machines:                                          *)
(*   Spec      - lib.rs lexer(): one next_token call per step              *)
(*   SpecParse - lib.rs parser(), one iteration of parse_program's loop    *)
(*               per step, followed by two normalize passes                *)
(*                                                                         *)
(* A source is a sequence of bytes; a byte is written as a one-character   *)
(* string.  NUL stands for the byte 0 and HIGH for a byte >= 0x80.         *)
(* Lexer::next_token in lexer.rs returns a Token (lexical failures are     *)
(* Illegal tokens); its callers match the result with Ok/Err, and since    *)
(* the lexer has no path that builds an Err the Ok arm is the one taken.   *)
(* A Rust panic is modelled by the flag panicked of the lexer record     *)
(* (once set the lexer only yields Eof and the caller's result is          *)
(* discarded) and by the status "panic" of the normalizer.                 *)
(***************************************************************************)
EXTENDS Integers, Sequences, FiniteSets, TLC

VARIABLES
    input,          \* the source handed to the entry point
    lexer,          \* Lexer { position, read_position, ch, line, column }
    tokens,         \* lib.rs lexer(): Vec<Token> collected so far
    last_token,     \* the token returned by the latest next_token call
    calls,          \* number of next_token calls made by lib.rs lexer()
    lex_status,     \* "running" | "ok" | "panic"
    stage,          \* SpecParse: "parse" | "normalize" | "renormalize" | "done"
    Lexed,          \* what the calls of next_token on the parser's lexer return
    parser_state,   \* parse_program: self (lexer, cur_token, peek_token, errors)
    program_start,  \* parse_program: the local start
    parsed,         \* parse_program: the local Vec statements
    parse_result,   \* result of Parser::parse_program
    raised,         \* diagnostics pushed during the parse, in order
    norm1,          \* result of normalize(program)
    norm2,          \* result of normalize(normalize(program))
    overflow_checks \* build profile: TRUE = arithmetic overflow panics

vars == <<input, lexer, tokens, last_token, calls, lex_status,
          stage, Lexed, parser_state, program_start, parsed, parse_result, raised,
          norm1, norm2, overflow_checks>>

-----------------------------------------------------------------------------
(* Bounds *)

\* longest source drawn over one of the byte alphabets (Spec)
MaxLen == 4
\* most lexemes in a source assembled from a lexeme family (SpecParse)
MaxFrags == 3
\* i64 is modelled as a two's complement integer of IntBits bits
IntBits == 24

-----------------------------------------------------------------------------
(* Bytes *)

NUL == "NUL"
HIGH == "HIGH"

Digits == {"0", "1", "2", "3", "4", "5", "6", "7", "8", "9"}
LowerLetters == {"a", "b", "c", "d", "e", "f", "g", "h", "i", "j", "k", "l", "m",
                 "n", "o", "p", "q", "r", "s", "t", "u", "v", "w", "x", "y", "z"}
UpperLetters == {"A", "B", "C", "D", "E", "F", "G", "H", "I", "J", "K", "L", "M",
                 "N", "O", "P", "Q", "R", "S", "T", "U", "V", "W", "X", "Y", "Z"}
HexDigits == Digits \cup {"a", "b", "c", "d", "e", "f", "A", "B", "C", "D", "E", "F"}
BinDigits == {"0", "1"}

is_ascii_digit(c) == c \in Digits
is_ascii_alphanumeric(c) == c \in Digits \cup LowerLetters \cup UpperLetters

\* the printable ASCII bytes 32..126 in byte order
Printable ==
    <<" ", "!", "\"", "#", "$", "%", "&", "'", "(", ")", "*", "+", ",", "-", ".", "/",
      "0", "1", "2", "3", "4", "5", "6", "7", "8", "9", ":", ";", "<", "=", ">", "?",
      "@", "A", "B", "C", "D", "E", "F", "G", "H", "I", "J", "K", "L", "M", "N", "O",
      "P", "Q", "R", "S", "T", "U", "V", "W", "X", "Y", "Z", "[", "\\", "]", "^", "_",
      "GRAVE", "a", "b", "c", "d", "e", "f", "g", "h", "i", "j", "k", "l", "m", "n", "o",
      "p", "q", "r", "s", "t", "u", "v", "w", "x", "y", "z", "{", "|", "}", "~">>

\* the value of a byte (HIGH is the lead byte of a two-byte UTF-8 character)
ByteOf ==
    [c \in {Printable[i] : i \in 1..Len(Printable)} \cup {NUL, "\t", "\n", "\r", HIGH} |->
        CASE c = NUL -> 0
          [] c = "\t" -> 9
          [] c = "\n" -> 10
          [] c = "\r" -> 13
          [] c = HIGH -> 195
          [] OTHER -> 31 + (CHOOSE i \in 1..Len(Printable) : Printable[i] = c)]

\* value of a digit in radices up to 16 (char::to_digit)
DigitVal(c) ==
    CASE c \in Digits -> ByteOf[c] - 48
      [] c \in {"a", "b", "c", "d", "e", "f"} -> ByteOf[c] - 87
      [] c \in {"A", "B", "C", "D", "E", "F"} -> ByteOf[c] - 55

RECURSIVE Pow(_, _)
Pow(b, n) == IF n = 0 THEN 1 ELSE b * Pow(b, n - 1)

\* i64::MAX and i64::MIN at the modelled width
I64Max == Pow(2, IntBits - 1) - 1
I64Min == 0 - Pow(2, IntBits - 1)

\* String built from a sequence of bytes (for keyword lookup)
RECURSIVE Join(_)
Join(s) == IF s = <<>> THEN "" ELSE Head(s) \o Join(Tail(s))

\* decimal digits of a natural number (u8 / i64 Display)
RECURSIVE NatToStr(_)
NatToStr(n) ==
    IF n < 10 THEN <<Printable[17 + n]>>
    ELSE Append(NatToStr(n \div 10), Printable[17 + (n % 10)])

IntToStr(n) == IF n < 0 THEN <<"-">> \o NatToStr(0 - n) ELSE NatToStr(n)

-----------------------------------------------------------------------------
(* Floating point values.  A finite f64 is held as an exact signed         *)
(* rational (neg, num/den in lowest terms); rounding is not modelled, so   *)
(* the arithmetic is exact for operands whose results f64 represents.      *)

RECURSIVE Gcd(_, _)
Gcd(a, b) == IF b = 0 THEN a ELSE Gcd(b, a % b)

FFin(neg, num, den) ==
    LET g == Gcd(num, den)
    IN  [cls |-> "fin", neg |-> neg, num |-> num \div g, den |-> den \div g]
FInf(neg) == [cls |-> "inf", neg |-> neg, num |-> 1, den |-> 0]
FNaN == [cls |-> "nan", neg |-> FALSE, num |-> 0, den |-> 0]

-----------------------------------------------------------------------------
(* Lexer (compiler/lexer.rs) *)

Span(start, end) == [start |-> start, end |-> end]

\* Lexer::read_char
read_char(inp, l) ==
    LET c == IF l.read_position >= Len(inp) THEN NUL ELSE inp[l.read_position + 1]
    IN  [l EXCEPT !.ch = c,
                  !.position = l.read_position,
                  !.read_position = l.read_position + 1,
                  !.line = IF c = "\n" THEN l.line + 1 ELSE l.line,
                  !.column = IF c = "\n" THEN 1 ELSE l.column + 1]

\* peek_char without the lookahead
peek_char_nothing(inp, l) == NUL

\* Lexer::peek_char
peek_char(inp, l) ==
    IF l.read_position >= Len(inp) THEN NUL ELSE inp[l.read_position + 1]

\* Lexer::new
LexerNew(inp) ==
    read_char(inp, [position |-> 0, read_position |-> 0, ch |-> NUL,
                    line |-> 1, column |-> 1, panicked |-> FALSE])

\* &input[from..to] as a sequence of bytes (0-based, half open)
Slice(inp, from, to) == SubSeq(inp, from + 1, to)

\* Lexer::read_identifier: the lexer after the loop (the text is the slice)
RECURSIVE read_identifier(_, _)
read_identifier(inp, l) ==
    IF is_ascii_alphanumeric(l.ch) \/ l.ch = "_"
    THEN read_identifier(inp, read_char(inp, l))
    ELSE l

\* skip_whitespace: the line comment loop
RECURSIVE SkipLineComment(_, _)
SkipLineComment(inp, l) ==
    IF l.ch # "\n" /\ l.ch # NUL THEN SkipLineComment(inp, read_char(inp, l)) ELSE l

\* skip_whitespace: the block comment loop and its closing delimiter
RECURSIVE SkipBlockComment(_, _)
SkipBlockComment(inp, l) ==
    IF ~(l.ch = "*" /\ peek_char(inp, l) = "/") /\ l.ch # NUL
    THEN SkipBlockComment(inp, read_char(inp, l))
    ELSE IF l.ch # NUL THEN read_char(inp, read_char(inp, l)) ELSE l

\* Lexer::skip_whitespace
RECURSIVE skip_whitespace(_, _)
skip_whitespace(inp, l) ==
    CASE l.ch \in {" ", "\r", "\t", "\n"} -> skip_whitespace(inp, read_char(inp, l))
      [] l.ch = "/" /\ peek_char(inp, l) = "/" ->
            skip_whitespace(inp, SkipLineComment(inp, l))
      [] l.ch = "/" /\ peek_char(inp, l) = "*" ->
            skip_whitespace(inp, SkipBlockComment(inp, read_char(inp, read_char(inp, l))))
      [] OTHER -> l

KeywordNames ==
    {"function", "sub", "class", "extends", "constructor", "new", "if", "else",
     "for", "while", "in", "of", "switch", "case", "default", "break", "continue",
     "return", "true", "false", "null", "and", "or"}

\* Token constructors
TokPlain(kind, sub, start, end) == [kind |-> kind, sub |-> sub, span |-> Span(start, end)]
TokText(kind, sub, text, start, end) ==
    [kind |-> kind, sub |-> sub, text |-> text, span |-> Span(start, end)]
TokInt(i, start, end) ==
    [kind |-> "Literal", sub |-> "Int", int |-> i, span |-> Span(start, end)]
TokFloat(f, start, end) ==
    [kind |-> "Literal", sub |-> "Float", float |-> f, span |-> Span(start, end)]
\* Token::eof
TokenEof(pos) == TokPlain("Eof", "Eof", pos, pos)

\* next_token: the operator and delimiter arms; l is the lexer at the token's
\* last byte, before the read_char that ends next_token
LexPunct(inp, l) ==
    LET p  == peek_char(inp, l)
        l1 == read_char(inp, l)
        p1 == peek_char(inp, l1)
        l2 == read_char(inp, l1)
        One(kind, sub)   == [l |-> l,  kind |-> kind, sub |-> sub]
        Two(kind, sub)   == [l |-> l1, kind |-> kind, sub |-> sub]
        Three(kind, sub) == [l |-> l2, kind |-> kind, sub |-> sub]
    IN  CASE l.ch = "=" ->
                IF p = "="
                THEN IF p1 = "=" THEN Three("Operator", "StrictEqual")
                                 ELSE Two("Operator", "Equal")
                ELSE One("Operator", "Assign")
          [] l.ch = "+" -> One("Operator", "Plus")
          [] l.ch = "-" -> One("Operator", "Minus")
          [] l.ch = "*" ->
                IF p = "*" THEN Two("Operator", "Power") ELSE One("Operator", "Asterisk")
          [] l.ch = "/" -> One("Operator", "Slash")
          [] l.ch = "%" -> One("Operator", "Percent")
          [] l.ch = "!" ->
                IF p = "="
                THEN IF p1 = "=" THEN Three("Operator", "StrictNotEqual")
                                 ELSE Two("Operator", "NotEqual")
                ELSE One("Operator", "Bang")
          [] l.ch = "<" ->
                IF p = "=" THEN Two("Operator", "LessThanOrEqual")
                ELSE IF p = "<"
                THEN IF p1 = "<" THEN Three("Operator", "BitwiseUnsignedLeftShift")
                                 ELSE Two("Operator", "BitwiseLeftShift")
                ELSE One("Operator", "LessThan")
          [] l.ch = ">" ->
                IF p = "=" THEN Two("Operator", "GreaterThanOrEqual")
                ELSE IF p = ">"
                THEN IF p1 = ">" THEN Three("Operator", "BitwiseUnsignedRightShift")
                                 ELSE Two("Operator", "BitwiseRightShift")
                ELSE One("Operator", "GreaterThan")
          [] l.ch = "." -> One("Delimiter", "Dot")
          [] l.ch = "," -> One("Delimiter", "Comma")
          [] l.ch = ":" -> One("Delimiter", "Colon")
          [] l.ch = ";" -> One("Delimiter", "Semicolon")
          [] l.ch = "(" -> One("Delimiter", "LParen")
          [] l.ch = ")" -> One("Delimiter", "RParen")
          [] l.ch = "{" -> One("Delimiter", "LBrace")
          [] l.ch = "}" -> One("Delimiter", "RBrace")
          [] l.ch = "[" -> One("Delimiter", "LBracket")
          [] l.ch = "]" -> One("Delimiter", "RBracket")
          [] l.ch = "&" ->
                IF p = "&" THEN Two("Operator", "LogicalAnd") ELSE One("Operator", "BitwiseAnd")
          [] l.ch = "|" ->
                IF p = "|" THEN Two("Operator", "LogicalOr") ELSE One("Operator", "BitwiseOr")
          [] l.ch = "^" -> One("Operator", "BitwiseXor")
          [] l.ch = "~" -> One("Operator", "BitwiseNot")

PunctBytes ==
    {"=", "+", "-", "*", "/", "%", "!", "<", ">", ".", ",", ":", ";", "(", ")",
     "{", "}", "[", "]", "&", "|", "^", "~"}

\* the digit loop shared by read_number, read_hex_number and read_binary_number;
\* exit = "illegal" is the early return of an Illegal token from inside the loop
RECURSIVE NumberLoop(_, _, _)
NumberLoop(inp, n, digits) ==
    IF ~(n.l.ch \in digits \/ n.l.ch = "_" \/ n.l.ch = ".")
    THEN [n EXCEPT !.exit = "done"]
    ELSE CASE n.l.ch = "_" ->
                IF n.number_str = <<>> \/ ~n.prev_was_digit
                THEN [n EXCEPT !.exit = "illegal"]
                ELSE NumberLoop(inp, [n EXCEPT !.prev_was_underscore = TRUE,
                                               !.l = read_char(inp, n.l)], digits)
           [] n.l.ch = "." ->
                IF n.prev_was_underscore
                THEN [n EXCEPT !.exit = "illegal"]
                ELSE IF n.dot_count + 1 > 1
                THEN [n EXCEPT !.dot_count = n.dot_count + 1, !.exit = "done"]
                ELSE NumberLoop(inp, [n EXCEPT !.dot_count = n.dot_count + 1,
                                               !.number_str = Append(n.number_str, "."),
                                               !.prev_was_digit = FALSE,
                                               !.prev_was_underscore = FALSE,
                                               !.l = read_char(inp, n.l)], digits)
           [] OTHER ->
                NumberLoop(inp, [n EXCEPT !.number_str = Append(n.number_str, n.l.ch),
                                          !.prev_was_digit = TRUE,
                                          !.prev_was_underscore = FALSE,
                                          !.l = read_char(inp, n.l)], digits)

NumberStart(l) ==
    [l |-> l, dot_count |-> 0, number_str |-> <<>>, prev_was_digit |-> FALSE,
     prev_was_underscore |-> FALSE, exit |-> "loop"]

\* str::parse::<i64> / i64::from_str_radix on a string of digits
RECURSIVE ParseDigits(_, _, _)
ParseDigits(str, radix, acc) ==
    IF str = <<>> THEN [ok |-> TRUE, val |-> acc]
    ELSE LET v == acc * radix + DigitVal(Head(str))
         IN  IF v > I64Max THEN [ok |-> FALSE, val |-> 0]
             ELSE ParseDigits(Tail(str), radix, v)

ParseI64(str, radix) ==
    IF str = <<>> THEN [ok |-> FALSE, val |-> 0] ELSE ParseDigits(str, radix, 0)

\* the exact value of a string of digits
RECURSIVE NatOf(_, _, _)
NatOf(str, radix, acc) ==
    IF str = <<>> THEN acc ELSE NatOf(Tail(str), radix, acc * radix + DigitVal(Head(str)))

\* str::split_once('.') on a number_str with one dot
DotIndex(str) == CHOOSE i \in 1..Len(str) : str[i] = "." /\ \A j \in 1..(i - 1) : str[j] # "."

\* the token built after the digit loop (shared tail of the three readers)
NumberToken(n, radix, start_pos) ==
    LET end == n.l.position + 1
        Illegal == TokText("Illegal", "Illegal", n.number_str, start_pos, end)
    IN  IF n.exit = "illegal" \/ n.prev_was_underscore THEN Illegal
        ELSE IF n.dot_count >= 1
        THEN LET dot == DotIndex(n.number_str)
                 int_str == SubSeq(n.number_str, 1, dot - 1)
                 frac_str == SubSeq(n.number_str, dot + 1, Len(n.number_str))
                 scale == Pow(radix, Len(frac_str))
             IN  IF radix = 10
                 THEN IF int_str = <<>> /\ frac_str = <<>> THEN Illegal
                      ELSE TokFloat(FFin(FALSE, NatOf(int_str, 10, 0) * scale
                                                + NatOf(frac_str, 10, 0), scale),
                                    start_pos, end)
                 ELSE IF int_str = <<>> THEN Illegal
                      ELSE IF ~ParseI64(int_str, radix).ok THEN Illegal
                      ELSE TokFloat(FFin(FALSE, ParseI64(int_str, radix).val * scale
                                                + NatOf(frac_str, radix, 0), scale),
                                    start_pos, end)
        ELSE IF ParseI64(n.number_str, radix).ok
             THEN TokInt(ParseI64(n.number_str, radix).val, start_pos, end)
             ELSE Illegal

\* Lexer::read_number (decimal)
read_number(inp, l) ==
    LET n == NumberLoop(inp, NumberStart(l), Digits)
    IN  [lexer |-> n.l, tok |-> NumberToken(n, 10, l.position)]

\* Lexer::read_hex_number: start_pos is taken after the two prefix bytes
read_hex_number(inp, l) ==
    LET l2 == read_char(inp, read_char(inp, l))
        n == NumberLoop(inp, NumberStart(l2), HexDigits)
    IN  [lexer |-> n.l, tok |-> NumberToken(n, 16, l2.position)]

\* Lexer::read_binary_number
read_binary_number(inp, l) ==
    LET l2 == read_char(inp, read_char(inp, l))
        n == NumberLoop(inp, NumberStart(l2), BinDigits)
    IN  [lexer |-> n.l, tok |-> NumberToken(n, 2, l2.position)]

\* read_number: the radix dispatch on the byte after a leading 0
ReadNumberDispatch(inp, l) ==
    IF l.ch = "0" /\ peek_char(inp, l) \in {"x", "X"} THEN read_hex_number(inp, l)
    ELSE IF l.ch = "0" /\ peek_char(inp, l) \in {"b", "B"} THEN read_binary_number(inp, l)
    ELSE read_number(inp, l)

\* read_string: the scanning loop
RECURSIVE StringLoop(_, _, _, _)
StringLoop(inp, l, quote_char, old_ch) ==
    IF old_ch = "\\" \/ (l.ch # quote_char /\ l.ch # NUL)
    THEN StringLoop(inp, read_char(inp, l), quote_char, l.ch)
    ELSE l

\* Lexer::read_string; slicing the input past its end panics
read_string(inp, l) ==
    LET l1 == read_char(inp, l)
        l2 == StringLoop(inp, l1, l.ch, NUL)
    IN  IF l2.position > Len(inp)
        THEN [lexer |-> [l2 EXCEPT !.panicked = TRUE], tok |-> TokenEof(0)]
        ELSE [lexer |-> l2,
              tok |-> TokText("Literal", "String", Slice(inp, l1.position, l2.position),
                              l.position, l2.position + 1)]

\* next_token: the identifier / keyword arm
LexWord(inp, l) ==
    LET l1 == read_identifier(inp, l)
        ident == Slice(inp, l.position, l1.position)
    IN  [lexer |-> l1,
         tok |-> IF Join(ident) \in KeywordNames
                 THEN TokPlain("Keyword", Join(ident), l.position, l1.position + 1)
                 ELSE TokText("Identifier", "Identifier", ident, l.position, l1.position + 1)]

\* next_token: the arm of a byte that starts no token, with the read_char
\* that ends next_token
IllegalByte(inp, l) ==
    [lexer |-> read_char(inp, l),
     tok |-> TokText("Illegal", "Illegal", NatToStr(ByteOf[l.ch]),
                     l.position, l.position + 1)]

\* Lexer::next_token
next_token(inp, l0) ==
    LET l == skip_whitespace(inp, l0)
        start_pos == l.position
    IN  IF l0.panicked THEN [lexer |-> l0, tok |-> TokenEof(0)] ELSE
        CASE l.ch \in PunctBytes ->
                LET r == LexPunct(inp, l)
                IN  [lexer |-> read_char(inp, r.l),
                     tok |-> TokPlain(r.kind, r.sub, start_pos, r.l.position + 1)]
          [] l.ch \in {"\"", "'"} ->
                LET r == read_string(inp, l)
                IN  IF r.lexer.panicked THEN r
                    ELSE [lexer |-> read_char(inp, r.lexer), tok |-> r.tok]
          [] l.ch \in Digits -> ReadNumberDispatch(inp, l)
          [] l.ch \in LowerLetters \cup UpperLetters \cup {"_"} -> LexWord(inp, l)
          [] l.ch = NUL ->
                [lexer |-> read_char(inp, l),
                 tok |-> TokPlain("Eof", "Eof", start_pos, l.position + 1)]
          [] OTHER -> IllegalByte(inp, l)

\* the tokens that successive next_token calls return before the first Eof
\* (the callers of the lexer iterate until they observe Eof)
RECURSIVE LexAll(_, _)
LexAll(inp, l) ==
    LET r == next_token(inp, l)
    IN  IF r.lexer.panicked \/ r.tok.kind = "Eof" THEN <<>>
        ELSE <<r.tok>> \o LexAll(inp, r.lexer)

-----------------------------------------------------------------------------
(* Parser (compiler/parser.rs) *)

\* Option<T>
None == [some |-> FALSE]
Some(x) == [some |-> TRUE, val |-> x]

\* enum Precedence, in declaration order (derive PartialOrd)
Precedence ==
    [Lowest |-> 0, Assign |-> 1, LogicalOr |-> 2, LogicalAnd |-> 3, BitOr |-> 4,
     BitXor |-> 5, BitAnd |-> 6, Equals |-> 7, LessGreater |-> 8, Shift |-> 9,
     Sum |-> 10, Product |-> 11, Power |-> 12, Prefix |-> 13, Call |-> 14]

\* ParseResult<T> together with the parser it leaves behind
Ok(p, v) == [p |-> p, ok |-> TRUE, val |-> v]
\* SnowFallError::new_compiler_error(.., code, self.lexer.line, self.lexer.column)
Err(p, code) ==
    [p |-> p, ok |-> FALSE,
     val |-> [code |-> code, line |-> p.lexer.line, column |-> p.lexer.column]]
\* the ? operator: an Err returns from the caller, an Ok continues with it
Try(r, Continue(_)) == IF r.ok THEN Continue(r) ELSE r

\* An Expression or a Statement of ast.rs is the record of its fields with
\* kind naming the variant: [kind |-> "Infix", left, operator, right, span].

\* The parser owns its lexer, and what the k-th call of next_token on it
\* returns depends on the source alone: lexed[k] is the result of the k-th
\* call (the token and the lexer after it), and calls counts the calls made.
\* After the first Eof the parser asks once more for every construct that
\* is still open, and twice to recover: the sequence ends with the eofs-th
\* call that returns Eof or faults, and the parser takes |source| + 3 of them.
RECURSIVE LexerResults(_, _, _)
LexerResults(inp, l, eofs) ==
    LET Rest(r) ==
            <<r>> \o LexerResults(inp, r.lexer,
                                  IF r.tok.kind = "Eof" \/ r.lexer.panicked THEN eofs - 1
                                  ELSE eofs)
    IN  IF eofs = 0 THEN <<>> ELSE Rest(next_token(inp, l))

\* Parser::next_token (the lexer has no Err path, the loop runs once)
Parser_next_token(lexed, p) ==
    LET r == lexed[p.calls + 1]
    IN  [p EXCEPT !.cur_token = p.peek_token, !.peek_token = r.tok, !.lexer = r.lexer,
                  !.calls = p.calls + 1]

\* Parser::new
ParserNew(inp, lexed) ==
    Parser_next_token(lexed, Parser_next_token(lexed,
        [lexer |-> LexerNew(inp), calls |-> 0, cur_token |-> TokenEof(0),
         peek_token |-> TokenEof(0), errors |-> <<>>]))

\* Parser::peek_token_is: only these four kinds ever compare equal
peek_token_is(p, kind, sub) ==
    /\ p.peek_token.kind = kind
    /\ \/ kind = "Identifier"
       \/ kind \in {"Delimiter", "Keyword", "Operator"} /\ p.peek_token.sub = sub

cur_token_is(p, kind, sub) == p.cur_token.kind = kind /\ p.cur_token.sub = sub

\* Parser::expect_peek
expect_peek(lexed, p, kind, sub) ==
    IF peek_token_is(p, kind, sub) THEN Ok(Parser_next_token(lexed, p), None)
    ELSE Err(p, "SF0010")

\* Parser::token_precedence
token_precedence(tok) ==
    IF tok.kind = "Operator"
    THEN CASE tok.sub = "Assign" -> Precedence.Assign
           [] tok.sub = "LogicalOr" -> Precedence.LogicalOr
           [] tok.sub = "LogicalAnd" -> Precedence.LogicalAnd
           [] tok.sub = "BitwiseOr" -> Precedence.BitOr
           [] tok.sub = "BitwiseXor" -> Precedence.BitXor
           [] tok.sub = "BitwiseAnd" -> Precedence.BitAnd
           [] tok.sub \in {"Equal", "NotEqual", "StrictEqual", "StrictNotEqual"} -> Precedence.Equals
           [] tok.sub \in {"BitwiseLeftShift", "BitwiseUnsignedLeftShift",
                           "BitwiseRightShift", "BitwiseUnsignedRightShift"} -> Precedence.Shift
           [] tok.sub \in {"LessThan", "LessThanOrEqual", "GreaterThan",
                           "GreaterThanOrEqual"} -> Precedence.LessGreater
           [] tok.sub \in {"Plus", "Minus"} -> Precedence.Sum
           [] tok.sub \in {"Asterisk", "Slash", "Percent"} -> Precedence.Product
           [] tok.sub = "Power" -> Precedence.Power
           [] OTHER -> Precedence.Lowest
    ELSE IF tok.kind = "Delimiter" /\ tok.sub = "LParen" THEN Precedence.Call
    ELSE IF tok.kind = "Keyword"
    THEN CASE tok.sub = "or" -> Precedence.LogicalOr
           [] tok.sub = "and" -> Precedence.LogicalAnd
           [] OTHER -> Precedence.Lowest
    ELSE Precedence.Lowest


\* Parser::convert_infix_operator (Operator arm; parse_infix is only entered
\* on an Operator token)
convert_infix_operator(sub) ==
    CASE sub = "Plus" -> "Add"
      [] sub = "Minus" -> "Subtract"
      [] sub = "Asterisk" -> "Multiply"
      [] sub = "Slash" -> "Divide"
      [] sub = "Percent" -> "Modulo"
      [] sub = "Power" -> "Power"
      [] sub = "Equal" -> "Equals"
      [] sub = "NotEqual" -> "NotEquals"
      [] sub = "StrictEqual" -> "StrictEquals"
      [] sub = "StrictNotEqual" -> "StrictNotEquals"
      [] sub = "LogicalAnd" -> "LogicalAndAlso"
      [] sub = "LogicalOr" -> "LogicalOrElse"
      [] sub \in {"LessThan", "GreaterThan", "LessThanOrEqual", "GreaterThanOrEqual",
                  "BitwiseAnd", "BitwiseOr", "BitwiseXor", "BitwiseLeftShift",
                  "BitwiseRightShift", "BitwiseUnsignedLeftShift",
                  "BitwiseUnsignedRightShift"} -> sub

RECURSIVE parse_expression(_, _, _)

\* Parser::parse_literal (the lexer builds no Boolean literal token:
\* true and false are keywords)
parse_literal(p) ==
    LET t == p.cur_token
    IN  CASE t.sub = "Int" -> Ok(p, [kind |-> "IntLiteral", int |-> t.int, span |-> t.span])
          [] t.sub = "Float" -> Ok(p, [kind |-> "FloatLiteral", float |-> t.float, span |-> t.span])
          [] t.sub = "String" -> Ok(p, [kind |-> "StringLiteral", text |-> t.text, span |-> t.span])

\* Parser::parse_prefix
parse_prefix(lexed, p) ==
    Try(parse_expression(lexed, Parser_next_token(lexed, p), Precedence.Prefix), LAMBDA r:
        Ok(r.p, [kind |-> "Prefix", operator |-> p.cur_token.sub, right |-> r.val,
                 span |-> Span(p.cur_token.span.start, r.p.cur_token.span.end)]))

\* parse_infix with the span of the new node starting at the operator
parse_infix_from_operator(lexed, p, left) ==
    Try(parse_expression(lexed, Parser_next_token(lexed, p),
                         IF p.cur_token.sub = "Assign" THEN Precedence.Lowest
                         ELSE token_precedence(p.cur_token)), LAMBDA r:
        Ok(r.p, [kind |-> "Infix", left |-> left,
                 operator |-> p.cur_token.sub, right |-> r.val,
                 span |-> Span(p.cur_token.span.start, r.p.cur_token.span.end)]))

\* parse_infix with every right operand parsed from Lowest
parse_infix_right_associative(lexed, p, left) ==
    Try(parse_expression(lexed, Parser_next_token(lexed, p), Precedence.Lowest), LAMBDA r:
        Ok(r.p, [kind |-> IF p.cur_token.sub = "Assign" THEN "Assignment" ELSE "Infix",
                 left |-> left, operator |-> p.cur_token.sub, right |-> r.val,
                 span |-> Span(left.span.start, r.p.cur_token.span.end)]))

\* Parser::parse_infix
parse_infix(lexed, p, left) ==
    IF p.cur_token.sub = "Assign"
    THEN Try(parse_expression(lexed, Parser_next_token(lexed, p), Precedence.Lowest), LAMBDA r:
             Ok(r.p, [kind |-> "Assignment", left |-> left, right |-> r.val,
                      span |-> Span(left.span.start, r.p.cur_token.span.end)]))
    ELSE Try(parse_expression(lexed, Parser_next_token(lexed, p),
                              token_precedence(p.cur_token)), LAMBDA r:
             Ok(r.p, [kind |-> "Infix", left |-> left,
                      operator |-> convert_infix_operator(p.cur_token.sub), right |-> r.val,
                      span |-> Span(left.span.start, r.p.cur_token.span.end)]))

\* Parser::parse_grouped
parse_grouped(lexed, p) ==
    Try(parse_expression(lexed, Parser_next_token(lexed, p), Precedence.Lowest), LAMBDA r:
    Try(expect_peek(lexed, r.p, "Delimiter", "RParen"), LAMBDA e:
        Ok(e.p, r.val)))

\* parse_expression_list: the loop over ", expression"
RECURSIVE ExpressionListLoop(_, _, _)
ExpressionListLoop(lexed, p, list) ==
    IF peek_token_is(p, "Delimiter", "Comma")
    THEN Try(parse_expression(lexed, Parser_next_token(lexed, Parser_next_token(lexed, p)),
                              Precedence.Lowest), LAMBDA r:
             ExpressionListLoop(lexed, r.p, Append(list, r.val)))
    ELSE Ok(p, list)

\* Parser::parse_expression_list
parse_expression_list(lexed, p, end) ==
    IF peek_token_is(p, "Delimiter", end) THEN Ok(Parser_next_token(lexed, p), <<>>)
    ELSE Try(parse_expression(lexed, Parser_next_token(lexed, p), Precedence.Lowest), LAMBDA r:
         Try(ExpressionListLoop(lexed, r.p, <<r.val>>), LAMBDA l:
         Try(expect_peek(lexed, l.p, "Delimiter", end), LAMBDA e:
             Ok(e.p, l.val))))

\* Parser::parse_call
parse_call(lexed, p, function) ==
    Try(parse_expression_list(lexed, p, "RParen"), LAMBDA r:
        Ok(r.p, [kind |-> "Call", function |-> function, arguments |-> r.val,
                 span |-> Span(function.span.start, r.p.cur_token.span.end)]))

\* Parser::parse_index
parse_index(lexed, p, left) ==
    Try(parse_expression(lexed, Parser_next_token(lexed, p), Precedence.Lowest), LAMBDA r:
    Try(expect_peek(lexed, r.p, "Delimiter", "RBracket"), LAMBDA e:
        Ok(e.p, [kind |-> "Index", left |-> left, index |-> r.val,
                 span |-> Span(left.span.start, e.p.cur_token.span.end)])))

\* Parser::parse_member
parse_member(lexed, p, left) ==
    Try(expect_peek(lexed, p, "Identifier", ""), LAMBDA e:
        Ok(e.p, [kind |-> "Member", left |-> left, property |-> e.p.cur_token.text,
                 span |-> Span(left.span.start, e.p.cur_token.span.end)]))

\* Parser::parse_array
parse_array(lexed, p) ==
    Try(parse_expression_list(lexed, p, "RBracket"), LAMBDA r:
        Ok(r.p, [kind |-> "ArrayLiteral", elements |-> r.val,
                 span |-> Span(p.cur_token.span.start, r.p.cur_token.span.end)]))

\* parse_object: the loop over "key : value" pairs
RECURSIVE ObjectLoop(_, _, _)
ObjectLoop(lexed, p, pairs) ==
    IF ~peek_token_is(p, "Delimiter", "RBrace")
    THEN Try(parse_expression(lexed, Parser_next_token(lexed, p), Precedence.Lowest),
             LAMBDA key:
         Try(expect_peek(lexed, key.p, "Delimiter", "Colon"), LAMBDA c:
         Try(parse_expression(lexed, Parser_next_token(lexed, c.p), Precedence.Lowest),
             LAMBDA value:
         Try(IF ~peek_token_is(value.p, "Delimiter", "RBrace")
             THEN expect_peek(lexed, value.p, "Delimiter", "Comma")
             ELSE Ok(value.p, None), LAMBDA m:
             ObjectLoop(lexed, m.p, Append(pairs, <<key.val, value.val>>))))))
    ELSE Ok(p, pairs)

\* Parser::parse_object
parse_object(lexed, p) ==
    Try(ObjectLoop(lexed, p, <<>>), LAMBDA l:
    Try(expect_peek(lexed, l.p, "Delimiter", "RBrace"), LAMBDA e:
        Ok(e.p, [kind |-> "ObjectLiteral", pairs |-> l.val,
                 span |-> Span(p.cur_token.span.start, e.p.cur_token.span.end)])))

\* parse_expression: the default arm of the prefix dispatch
PrefixUnexpected(p) == Err(p, "SF0015")

\* parse_expression: the prefix dispatch on cur_token
ParsePrefixPosition(lexed, p) ==
    LET Leaf(t) ==
            CASE t.kind = "Identifier" ->
                    Ok(p, [kind |-> "Identifier", text |-> t.text, span |-> t.span])
              [] t.kind = "Literal" -> parse_literal(p)
              [] t.kind = "Keyword" /\ t.sub \in {"true", "false"} ->
                    Ok(p, [kind |-> "Boolean", bool |-> (t.sub = "true"), span |-> t.span])
              [] t.kind = "Keyword" /\ t.sub = "null" ->
                    Ok(p, [kind |-> "NullLiteral", span |-> t.span])
              [] t.kind = "Operator" /\ t.sub \in {"Plus", "Minus", "Bang", "BitwiseNot"} ->
                    parse_prefix(lexed, p)
              [] t.kind = "Delimiter" /\ t.sub = "LParen" -> parse_grouped(lexed, p)
              [] t.kind = "Delimiter" /\ t.sub = "LBracket" -> parse_array(lexed, p)
              [] t.kind = "Delimiter" /\ t.sub = "LBrace" -> parse_object(lexed, p)
              [] OTHER -> PrefixUnexpected(p)
    IN  Leaf(p.cur_token)

\* parse_expression: the infix loop
RECURSIVE InfixLoop(_, _, _, _)
InfixLoop(lexed, p, left, precedence) ==
    LET Arm(t, n) ==
            CASE t.kind = "Operator" -> parse_infix(lexed, n, left)
              [] t.kind = "Delimiter" /\ t.sub = "LParen" -> parse_call(lexed, n, left)
              [] t.kind = "Delimiter" /\ t.sub = "LBracket" -> parse_index(lexed, n, left)
              [] t.kind = "Delimiter" /\ t.sub = "Dot" -> parse_member(lexed, n, left)
        Applies(t) ==
            \/ t.kind = "Operator"
            \/ t.kind = "Delimiter" /\ t.sub \in {"LParen", "LBracket", "Dot"}
    IN  IF ~peek_token_is(p, "Delimiter", "Semicolon")
           /\ precedence < token_precedence(p.peek_token)
           /\ Applies(p.peek_token)
        THEN Try(Arm(p.peek_token, Parser_next_token(lexed, p)), LAMBDA r:
                 InfixLoop(lexed, r.p, r.val, precedence))
        ELSE Ok(p, left)

\* Parser::parse_expression
parse_expression(lexed, p, precedence) ==
    Try(ParsePrefixPosition(lexed, p), LAMBDA left:
        InfixLoop(lexed, left.p, left.val, precedence))

RECURSIVE parse_statement(_, _)

\* parse_block_statement: the loop over the statements of the block
RECURSIVE BlockLoop(_, _, _)
BlockLoop(lexed, p, statements) ==
    IF ~cur_token_is(p, "Delimiter", "RBrace") /\ p.cur_token.kind # "Eof"
    THEN Try(parse_statement(lexed, p), LAMBDA r:
             BlockLoop(lexed, Parser_next_token(lexed, r.p), Append(statements, r.val)))
    ELSE Ok(p, statements)

\* Parser::parse_block_statement
parse_block_statement(lexed, p) ==
    Try(BlockLoop(lexed, Parser_next_token(lexed, p), <<>>), LAMBDA l:
        Ok(l.p, [kind |-> "Block", statements |-> l.val,
                 span |-> Span(p.cur_token.span.start, l.p.cur_token.span.end)]))

\* Parser::parse_expression_statement
parse_expression_statement(lexed, p) ==
    LET Finish(r, p2) ==
            Ok(p2, [kind |-> "Expression", expr |-> r.val,
                    span |-> Span(p.cur_token.span.start, p2.cur_token.span.end)])
    IN  Try(parse_expression(lexed, p, Precedence.Lowest), LAMBDA r:
            Finish(r, IF peek_token_is(r.p, "Delimiter", "Semicolon")
                      THEN Parser_next_token(lexed, r.p) ELSE r.p))

\* Parser::is_variable_declaration
is_variable_declaration(p) ==
    p.cur_token.kind = "Identifier" /\ p.peek_token.kind = "Identifier"

\* the optional "= expression" after a declared name or a parameter name
OptionalInitializer(lexed, p) ==
    IF peek_token_is(p, "Operator", "Assign")
    THEN Try(parse_expression(lexed, Parser_next_token(lexed, Parser_next_token(lexed, p)),
                              Precedence.Lowest), LAMBDA r:
             Ok(r.p, Some(r.val)))
    ELSE Ok(p, None)

\* parse_variable_declaration: the loop over the declarators
RECURSIVE DeclaratorLoop(_, _, _)
DeclaratorLoop(lexed, p, declarators) ==
    LET Next(v, ds) ==
            IF peek_token_is(v.p, "Delimiter", "Comma")
            THEN DeclaratorLoop(lexed, Parser_next_token(lexed, v.p), ds)
            ELSE Ok(v.p, ds)
    IN  Try(expect_peek(lexed, p, "Identifier", ""), LAMBDA e:
        Try(OptionalInitializer(lexed, e.p), LAMBDA v:
            Next(v, Append(declarators, [name |-> e.p.cur_token.text, value |-> v.val]))))

\* Parser::parse_variable_declaration_for_for
parse_variable_declaration_for_for(lexed, p) ==
    IF p.cur_token.kind # "Identifier" THEN Err(p, "SF0012")
    ELSE Try(DeclaratorLoop(lexed, p, <<>>), LAMBDA l:
             Ok(l.p, [kind |-> "VariableDeclaration", type_name |-> p.cur_token.text,
                      declarators |-> l.val,
                      span |-> Span(p.cur_token.span.start, l.p.cur_token.span.end)]))

\* Parser::parse_variable_declaration
parse_variable_declaration(lexed, p) ==
    IF p.cur_token.kind # "Identifier" THEN Err(p, "SF0012")
    ELSE Try(DeclaratorLoop(lexed, p, <<>>), LAMBDA l:
         Try(expect_peek(lexed, l.p, "Delimiter", "Semicolon"), LAMBDA e:
             Ok(e.p, [kind |-> "VariableDeclaration", type_name |-> p.cur_token.text,
                      declarators |-> l.val,
                      span |-> Span(p.cur_token.span.start, e.p.cur_token.span.end)])))

\* parse_parameters: the loop over the parameters
RECURSIVE ParameterLoop(_, _, _)
ParameterLoop(lexed, p, params) ==
    LET Next(v, ps) ==
            IF peek_token_is(v.p, "Delimiter", "Comma")
            THEN ParameterLoop(lexed, Parser_next_token(lexed, Parser_next_token(lexed, v.p)),
                               ps)
            ELSE Ok(v.p, ps)
    IN  IF p.cur_token.kind # "Identifier" THEN Err(p, "SF0014")
        ELSE Try(expect_peek(lexed, p, "Identifier", ""), LAMBDA e:
             Try(OptionalInitializer(lexed, e.p), LAMBDA v:
                 Next(v, Append(params, [name |-> e.p.cur_token.text,
                                         type_name |-> p.cur_token.text,
                                         value |-> v.val]))))

\* Parser::parse_parameters
parse_parameters(lexed, p) ==
    Try(expect_peek(lexed, p, "Delimiter", "LParen"), LAMBDA o:
        IF peek_token_is(o.p, "Delimiter", "RParen")
        THEN Ok(Parser_next_token(lexed, o.p), <<>>)
        ELSE Try(ParameterLoop(lexed, Parser_next_token(lexed, o.p), <<>>), LAMBDA l:
             Try(expect_peek(lexed, l.p, "Delimiter", "RParen"), LAMBDA c:
                 Ok(c.p, l.val))))

\* parse_function_declaration / parse_sub_declaration from the name onwards:
\* name, parameters and body
FunctionTail(lexed, p, fkind, return_type, start) ==
    Try(expect_peek(lexed, p, "Identifier", ""), LAMBDA n:
    Try(parse_parameters(lexed, n.p), LAMBDA ps:
    Try(expect_peek(lexed, ps.p, "Delimiter", "LBrace"), LAMBDA b:
    Try(parse_block_statement(lexed, b.p), LAMBDA body:
        Ok(body.p, [kind |-> "FunctionDeclaration", fkind |-> fkind,
                    name |-> n.p.cur_token.text, return_type |-> return_type,
                    params |-> ps.val, body |-> body.val,
                    span |-> Span(start, body.p.cur_token.span.end)])))))

\* Parser::parse_function_declaration
parse_function_declaration(lexed, p) ==
    Try(expect_peek(lexed, p, "Identifier", ""), LAMBDA t:
        FunctionTail(lexed, t.p, "Function", Some(t.p.cur_token.text),
                     p.cur_token.span.start))

\* Parser::parse_sub_declaration
parse_sub_declaration(lexed, p) ==
    FunctionTail(lexed, p, "Sub", None, p.cur_token.span.start)

\* Parser::parse_return_statement
parse_return_statement(lexed, p) ==
    LET start == p.cur_token.span.start
        Finish(r, p2) ==
            Ok(p2, [kind |-> "Return", value |-> Some(r.val),
                    span |-> Span(start, p2.cur_token.span.end)])
        After(n) ==
            IF cur_token_is(n, "Delimiter", "Semicolon")
            THEN Ok(n, [kind |-> "Return", value |-> None,
                        span |-> Span(start, n.cur_token.span.end)])
            ELSE Try(parse_expression(lexed, n, Precedence.Lowest), LAMBDA r:
                     Finish(r, IF peek_token_is(r.p, "Delimiter", "Semicolon")
                               THEN Parser_next_token(lexed, r.p) ELSE r.p))
    IN  After(Parser_next_token(lexed, p))

\* "( condition )" then the body statement: shared head of if and while
ConditionAndBody(lexed, p) ==
    Try(expect_peek(lexed, p, "Delimiter", "LParen"), LAMBDA o:
    Try(parse_expression(lexed, Parser_next_token(lexed, o.p), Precedence.Lowest), LAMBDA c:
    Try(expect_peek(lexed, c.p, "Delimiter", "RParen"), LAMBDA e:
    Try(parse_statement(lexed, Parser_next_token(lexed, e.p)), LAMBDA b:
        Ok(b.p, [condition |-> c.val, body |-> b.val])))))

\* Parser::parse_if_statement
parse_if_statement(lexed, p) ==
    LET start == p.cur_token.span.start
    IN  Try(ConditionAndBody(lexed, p), LAMBDA h:
            IF peek_token_is(h.p, "Keyword", "else")
            THEN Try(parse_statement(lexed,
                                     Parser_next_token(lexed, Parser_next_token(lexed, h.p))),
                     LAMBDA a:
                     Ok(a.p, [kind |-> "If", condition |-> h.val.condition,
                              consequence |-> h.val.body, alternative |-> Some(a.val),
                              span |-> Span(start, a.p.cur_token.span.end)]))
            ELSE Ok(h.p, [kind |-> "If", condition |-> h.val.condition,
                          consequence |-> h.val.body, alternative |-> None,
                          span |-> Span(start, h.p.cur_token.span.end)]))

\* Parser::parse_while_statement
parse_while_statement(lexed, p) ==
    Try(ConditionAndBody(lexed, p), LAMBDA h:
        Ok(h.p, [kind |-> "While", condition |-> h.val.condition, body |-> h.val.body,
                 span |-> Span(p.cur_token.span.start, h.p.cur_token.span.end)]))

\* is_for_each_loop: the probing loop over a clone of the lexer; the result
\* is "true", "false", or "panic" when the cloned lexer faults
RECURSIVE ForEachProbe(_, _, _, _, _)
ForEachProbe(lexed, temp_calls, temp_cur, temp_peek, paren_level) ==
    LET Advance(r, level) ==
            IF r.lexer.panicked THEN "panic"
            ELSE ForEachProbe(lexed, temp_calls + 1, temp_peek, r.tok, level)
        Step(r) ==
            CASE temp_cur.kind = "Keyword" /\ temp_cur.sub \in {"in", "of"} ->
                    IF paren_level = 1 THEN "true" ELSE Advance(r, paren_level)
              [] temp_cur.kind = "Delimiter" /\ temp_cur.sub = "Semicolon" -> "false"
              [] temp_cur.kind = "Delimiter" /\ temp_cur.sub \in {"LParen", "RParen"} ->
                    IF temp_cur.sub = "RParen" /\ paren_level - 1 = 0 THEN "false"
                    ELSE Advance(r, IF temp_cur.sub = "LParen" THEN paren_level + 1
                                    ELSE paren_level - 1)
              [] temp_cur.kind = "Eof" -> "false"
              [] OTHER -> Advance(r, paren_level)
    IN  Step(lexed[temp_calls + 1])

\* a probe that answers C-style for whatever it is given
is_for_each_loop_never(lexed, p) == [each |-> "false", self |-> p]

\* a probe that scans with the parser's own lexer and token buffer
is_for_each_loop_advancing(lexed, p) ==
    [each |-> ForEachProbe(lexed, p.calls, p.cur_token, p.peek_token, 1),
     self |-> Parser_next_token(lexed, p)]

\* Parser::is_for_each_loop(&self): the answer of the probe, which runs on
\* clones of the lexer and of the two tokens, and the parser after the call
is_for_each_loop(lexed, p) ==
    [each |-> ForEachProbe(lexed, p.calls, p.cur_token, p.peek_token, 1), self |-> p]

\* Parser::parse_expression_statement_for_for
parse_expression_statement_for_for(lexed, p) ==
    Try(parse_expression(lexed, p, Precedence.Lowest), LAMBDA r:
        Ok(r.p, [kind |-> "Expression", expr |-> r.val,
                 span |-> Span(p.cur_token.span.start, r.p.cur_token.span.end)]))

\* parse_for_statement: the for-each branch, p at the token after "("
ParseForEach(lexed, p, start) ==
    LET Iterate(k) ==
            IF ~(k.cur_token.kind = "Keyword" /\ k.cur_token.sub \in {"in", "of"})
            THEN Err(k, "SF0017")
            ELSE Try(parse_expression(lexed, Parser_next_token(lexed, k), Precedence.Lowest),
                     LAMBDA it:
                 Try(expect_peek(lexed, it.p, "Delimiter", "RParen"), LAMBDA e:
                 Try(parse_statement(lexed, Parser_next_token(lexed, e.p)), LAMBDA b:
                     Ok(b.p, [kind |-> "ForEach",
                              binding |-> [name |-> p.cur_token.text, type_name |-> None],
                              iterable |-> it.val,
                              fkind |-> IF k.cur_token.sub = "in" THEN "In" ELSE "Of",
                              body |-> b.val,
                              span |-> Span(start, b.p.cur_token.span.end)]))))
    IN  IF p.cur_token.kind # "Identifier" THEN Err(p, "SF0016")
        ELSE Iterate(Parser_next_token(lexed, p))

\* parse_for_statement: an optional clause of the C-style header, absent when
\* cur_token is the closing delimiter
ForClause(lexed, p, closing, form) ==
    IF cur_token_is(p, "Delimiter", closing) THEN Ok(p, None)
    ELSE Try(CASE form = "init" /\ is_variable_declaration(p) ->
                     parse_variable_declaration_for_for(lexed, p)
               [] form = "condition" -> parse_expression(lexed, p, Precedence.Lowest)
               [] OTHER -> parse_expression_statement_for_for(lexed, p), LAMBDA r:
             Ok(r.p, Some(r.val)))

\* parse_for_statement: the C-style branch, p at the token after "("
ParseCStyleFor(lexed, p, start) ==
    Try(ForClause(lexed, p, "Semicolon", "init"), LAMBDA init:
    Try(expect_peek(lexed, init.p, "Delimiter", "Semicolon"), LAMBDA s1:
    Try(ForClause(lexed, Parser_next_token(lexed, s1.p), "Semicolon", "condition"),
        LAMBDA condition:
    Try(expect_peek(lexed, condition.p, "Delimiter", "Semicolon"), LAMBDA s2:
    Try(ForClause(lexed, Parser_next_token(lexed, s2.p), "RParen", "update"), LAMBDA update:
    Try(expect_peek(lexed, update.p, "Delimiter", "RParen"), LAMBDA c:
    Try(parse_statement(lexed, Parser_next_token(lexed, c.p)), LAMBDA b:
        Ok(b.p, [kind |-> "For", init |-> init.val, condition |-> condition.val,
                 update |-> update.val, body |-> b.val,
                 span |-> Span(start, b.p.cur_token.span.end)]))))))))

\* Parser::parse_for_statement; a fault of the probe is a fault of the parse
parse_for_statement(lexed, p) ==
    LET Branch(k) ==
            CASE k.each = "panic" -> Err([k.self EXCEPT !.lexer.panicked = TRUE], "SF0016")
              [] k.each = "true" -> ParseForEach(lexed, k.self, p.cur_token.span.start)
              [] k.each = "false" -> ParseCStyleFor(lexed, k.self, p.cur_token.span.start)
        Probe(n) == Branch(is_for_each_loop(lexed, n))
    IN  Try(expect_peek(lexed, p, "Delimiter", "LParen"), LAMBDA o:
            Probe(Parser_next_token(lexed, o.p)))

\* parse_class_declaration: the loop over the members
RECURSIVE ClassMemberLoop(_, _, _)
ClassMemberLoop(lexed, p, members) ==
    LET Member(n) ==
            CASE cur_token_is(n, "Keyword", "function") -> parse_function_declaration(lexed, n)
              [] cur_token_is(n, "Keyword", "sub") -> parse_sub_declaration(lexed, n)
              [] OTHER -> Err(n, "SF0011")
    IN  IF ~peek_token_is(p, "Delimiter", "RBrace") /\ ~peek_token_is(p, "Eof", "Eof")
        THEN Try(Member(Parser_next_token(lexed, p)), LAMBDA m:
                 ClassMemberLoop(lexed, m.p, Append(members, m.val)))
        ELSE Ok(p, members)

\* Parser::parse_class_declaration
parse_class_declaration(lexed, p) ==
    Try(expect_peek(lexed, p, "Identifier", ""), LAMBDA n:
    Try(IF peek_token_is(n.p, "Keyword", "extends")
        THEN Try(expect_peek(lexed, Parser_next_token(lexed, n.p), "Identifier", ""),
                 LAMBDA e: Ok(e.p, Some(e.p.cur_token.text)))
        ELSE Ok(n.p, None), LAMBDA s:
    Try(expect_peek(lexed, s.p, "Delimiter", "LBrace"), LAMBDA b:
    Try(ClassMemberLoop(lexed, b.p, <<>>), LAMBDA l:
    Try(expect_peek(lexed, l.p, "Delimiter", "RBrace"), LAMBDA c:
        Ok(c.p, [kind |-> "ClassDeclaration", name |-> n.p.cur_token.text,
                 superclass |-> s.val, members |-> l.val,
                 span |-> Span(p.cur_token.span.start, c.p.cur_token.span.end)]))))))

\* Parser::parse_statement
parse_statement(lexed, p) ==
    LET Dispatch(t) ==
            CASE t.kind = "Keyword" /\ t.sub = "function" ->
                    parse_function_declaration(lexed, p)
              [] t.kind = "Keyword" /\ t.sub = "sub" -> parse_sub_declaration(lexed, p)
              [] t.kind = "Keyword" /\ t.sub = "class" -> parse_class_declaration(lexed, p)
              [] t.kind = "Keyword" /\ t.sub = "for" -> parse_for_statement(lexed, p)
              [] t.kind = "Keyword" /\ t.sub = "if" -> parse_if_statement(lexed, p)
              [] t.kind = "Keyword" /\ t.sub = "while" -> parse_while_statement(lexed, p)
              [] t.kind = "Keyword" /\ t.sub = "return" -> parse_return_statement(lexed, p)
              [] t.kind = "Delimiter" /\ t.sub = "LBrace" -> parse_block_statement(lexed, p)
              [] t.kind = "Identifier" /\ is_variable_declaration(p) ->
                    parse_variable_declaration(lexed, p)
              [] OTHER -> parse_expression_statement(lexed, p)
    IN  Dispatch(p.cur_token)

\* an iteration of the statement loop that does not advance the token buffer
ProgramStepWithoutAdvance(lexed, p, statements) ==
    LET Recover(r) ==
            IF r.ok THEN Ok(r.p, Append(statements, r.val))
            ELSE Ok([r.p EXCEPT !.errors = Append(r.p.errors, r.val)], statements)
    IN  Recover(parse_statement(lexed, p))

\* parse_program: one iteration of the statement loop, with its error
\* recovery (a second next_token after the diagnostic is pushed)
ProgramStep(lexed, p, statements) ==
    LET Recover(r) ==
            IF r.ok
            THEN Ok(Parser_next_token(lexed, r.p), Append(statements, r.val))
            ELSE Ok(Parser_next_token(lexed, Parser_next_token(lexed,
                        [r.p EXCEPT !.errors = Append(r.p.errors, r.val)])),
                    statements)
    IN  Recover(parse_statement(lexed, p))

\* parse_program: the statement loop
RECURSIVE ProgramLoop(_, _, _)
ProgramLoop(lexed, p, statements) ==
    LET Again(s) == ProgramLoop(lexed, s.p, s.val)
    IN  IF p.cur_token.kind # "Eof" THEN Again(ProgramStep(lexed, p, statements))
        ELSE Ok(p, statements)

\* parse_program: the result once the loop has ended
ProgramResult(p, statements, start) ==
    IF p.errors # <<>> THEN [ok |-> FALSE, errors |-> p.errors]
    ELSE [ok |-> TRUE,
          program |-> [statements |-> statements,
                       span |-> Span(start, IF statements # <<>>
                                            THEN statements[Len(statements)].span.end
                                            ELSE start)]]

\* Parser::parse_program; accumulated keeps the diagnostics pushed during the
\* parse, before the drain
parse_program(lexed, p) ==
    LET Result(l) ==
            [panicked |-> l.p.lexer.panicked,
             accumulated |-> l.p.errors,
             result |-> ProgramResult(l.p, l.val, p.cur_token.span.start)]
    IN  Result(ProgramLoop(lexed, p, <<>>))

\* lib.rs parser(): the ParserResult built from parse_program's result, or a
\* fault
ParserResultOf(r) ==
    IF r.panicked THEN [kind |-> "Panic"]
    ELSE IF r.result.ok
    THEN [kind |-> "Returned", ast |-> Some(r.result.program), errors |-> None]
    ELSE [kind |-> "Returned", ast |-> None, errors |-> Some(r.result.errors)]

\* lib.rs parser(): Lexer::new, Parser::new and parse_program
ParseSource(inp) ==
    LET Run(lexed) == parse_program(lexed, ParserNew(inp, lexed))
    IN  Run(LexerResults(inp, LexerNew(inp), Len(inp) + 3))

\* lib.rs parser()
parser(inp) == ParserResultOf(ParseSource(inp))
-----------------------------------------------------------------------------
(* Normalizer (compiler/normalizer.rs) *)

\* a value together with the fault flag of the computation that built it
Done(v) == [panicked |-> FALSE, val |-> v]
Panicked == [panicked |-> TRUE, val |-> None]
\* a fault ends the computation, a value goes on
Then(r, Continue(_)) == IF r.panicked THEN Panicked ELSE Continue(r.val)

\* i64 arithmetic.  InRange: the exact result fits the integer width
InRange(x) == I64Min <= x /\ x <= I64Max
\* two's complement wrap-around of an exact result
Wrap(x) == ((x - I64Min) % Pow(2, IntBits)) + I64Min
Abs(x) == IF x < 0 THEN 0 - x ELSE x

\* an arithmetic result: kept when it fits; otherwise a panic when the build
\* has overflow checks (debug profile), the wrapped value when it has not
Overflowing(oc, fits, exact, wrapped) ==
    IF fits THEN Done(exact) ELSE IF oc THEN Panicked ELSE Done(wrapped)

\* (a * b) mod 2^IntBits for naturals below 2^IntBits, by doubling
RECURSIVE MulMod(_, _)
MulMod(a, b) ==
    IF b = 0 THEN 0
    ELSE ((2 * MulMod(a, b \div 2)) + (IF b % 2 = 1 THEN a ELSE 0)) % Pow(2, IntBits)

\* the exact product of l and r fits the integer width
MulFits(l, r) ==
    \/ l = 0
    \/ r = 0
    \/ (l < 0) = (r < 0) /\ l # I64Min /\ r # I64Min /\ Abs(l) <= I64Max \div Abs(r)
    \/ (l < 0) # (r < 0) /\ (IF l < 0 THEN r <= I64Min \div l ELSE l <= I64Min \div r)

\* l * r on i64
IntMul(oc, l, r) ==
    IF MulFits(l, r) THEN Done(l * r)
    ELSE Overflowing(oc, FALSE, 0,
                     Wrap(MulMod(l % Pow(2, IntBits), r % Pow(2, IntBits))))

\* l / r on i64: division by zero and MIN / -1 panic in every build profile;
\* the quotient truncates toward zero
IntDiv(l, r) ==
    IF r = 0 \/ (l = I64Min /\ r = -1) THEN Panicked
    ELSE Done(IF (l < 0) = (r < 0) THEN Abs(l) \div Abs(r) ELSE 0 - (Abs(l) \div Abs(r)))

\* -val on i64
IntNeg(oc, v) == Overflowing(oc, v # I64Min, 0 - v, v)

\* f64 arithmetic on the exact representation
IsZero(f) == f.cls = "fin" /\ f.num = 0
FNeg(f) == IF f.cls = "nan" THEN f ELSE [f EXCEPT !.neg = ~f.neg]
FAdd(a, b) ==
    CASE a.cls = "nan" \/ b.cls = "nan" -> FNaN
      [] a.cls = "inf" /\ b.cls = "inf" -> IF a.neg = b.neg THEN a ELSE FNaN
      [] a.cls = "inf" /\ b.cls = "fin" -> a
      [] a.cls = "fin" /\ b.cls = "inf" -> b
      [] a.cls = "fin" /\ b.cls = "fin" ->
            LET den == a.den * b.den
                Scaled(f) == (IF f.neg THEN -1 ELSE 1) * f.num * (den \div f.den)
                s == Scaled(a) + Scaled(b)
            IN  IF s = 0 THEN FFin(a.neg /\ b.neg, 0, 1)
                ELSE FFin(s < 0, Abs(s), den)
FMul(a, b) ==
    CASE a.cls = "nan" \/ b.cls = "nan" -> FNaN
      [] a.cls # "nan" /\ b.cls # "nan" /\ (a.cls = "inf" \/ b.cls = "inf") ->
            IF IsZero(a) \/ IsZero(b) THEN FNaN ELSE FInf(a.neg # b.neg)
      [] a.cls = "fin" /\ b.cls = "fin" -> FFin(a.neg # b.neg, a.num * b.num, a.den * b.den)
FDiv(a, b) ==
    CASE a.cls = "nan" \/ b.cls = "nan" -> FNaN
      [] a.cls = "inf" /\ b.cls = "inf" -> FNaN
      [] a.cls = "inf" /\ b.cls = "fin" -> FInf(a.neg # b.neg)
      [] a.cls = "fin" /\ b.cls = "inf" -> FFin(a.neg # b.neg, 0, 1)
      [] a.cls = "fin" /\ b.cls = "fin" ->
            IF IsZero(b) THEN (IF IsZero(a) THEN FNaN ELSE FInf(a.neg # b.neg))
            ELSE FFin(a.neg # b.neg, a.num * b.den, a.den * b.num)

\* f64 Display: the fractional digits of rem / den by long division
RECURSIVE FracDigits(_, _, _)
FracDigits(rem, den, n) ==
    IF rem = 0 \/ n = 0 THEN <<>>
    ELSE <<Printable[17 + ((rem * 10) \div den)]>> \o FracDigits((rem * 10) % den, den, n - 1)

\* f64 Display (val.to_string()): no exponent, no trailing ".0"
FloatToStr(f) ==
    CASE f.cls = "nan" -> <<"N", "a", "N">>
      [] f.cls = "inf" -> (IF f.neg THEN <<"-">> ELSE <<>>) \o <<"i", "n", "f">>
      [] f.cls = "fin" ->
            (IF f.neg THEN <<"-">> ELSE <<>>) \o NatToStr(f.num \div f.den)
            \o (IF f.num % f.den = 0 THEN <<>>
                ELSE <<".">> \o FracDigits(f.num % f.den, f.den, 17))

\* str::cmp: lexicographic order of the bytes
RECURSIVE StrLess(_, _)
StrLess(a, b) ==
    IF b = <<>> THEN FALSE
    ELSE IF a = <<>> THEN TRUE
    ELSE IF ByteOf[Head(a)] # ByteOf[Head(b)] THEN ByteOf[Head(a)] < ByteOf[Head(b)]
    ELSE StrLess(Tail(a), Tail(b))

\* enum SortKey
SortKey(cls, str) == [cls |-> cls, str |-> str]

\* a sort key that ranks only numeric and Boolean literals as literals
get_sort_key_numeric(e) ==
    CASE e.kind = "Identifier" -> SortKey("Identifier", e.text)
      [] e.kind = "IntLiteral" -> SortKey("Literal", IntToStr(e.int))
      [] e.kind = "FloatLiteral" -> SortKey("Literal", FloatToStr(e.float))
      [] e.kind = "Boolean" ->
            SortKey("Literal", IF e.bool THEN <<"t", "r", "u", "e">>
                               ELSE <<"f", "a", "l", "s", "e">>)
      [] OTHER -> SortKey("Other", <<>>)

\* get_sort_key
get_sort_key(e) ==
    CASE e.kind = "Identifier" -> SortKey("Identifier", e.text)
      [] e.kind = "IntLiteral" -> SortKey("Literal", IntToStr(e.int))
      [] e.kind = "FloatLiteral" -> SortKey("Literal", FloatToStr(e.float))
      [] e.kind = "StringLiteral" -> SortKey("Literal", e.text)
      [] e.kind = "Boolean" ->
            SortKey("Literal", IF e.bool THEN <<"t", "r", "u", "e">>
                               ELSE <<"f", "a", "l", "s", "e">>)
      [] e.kind = "NullLiteral" -> SortKey("Literal", <<"n", "u", "l", "l">>)
      [] OTHER -> SortKey("Other", <<>>)

\* impl Ord for SortKey: cmp(a, b) = Less
SortKeyLess(a, b) ==
    CASE a.cls = "Identifier" /\ b.cls = "Identifier" -> StrLess(a.str, b.str)
      [] a.cls = "Literal" /\ b.cls = "Literal" -> StrLess(a.str, b.str)
      [] a.cls = "Identifier" /\ b.cls = "Literal" -> TRUE
      [] a.cls = "Literal" /\ b.cls = "Identifier" -> FALSE
      [] a.cls = "Other" /\ b.cls = "Other" -> FALSE
      [] a.cls # "Other" /\ b.cls = "Other" -> TRUE
      [] a.cls = "Other" /\ b.cls # "Other" -> FALSE

\* is_commutative
is_commutative(op) == op \in {"Add", "Multiply"}

\* collect_operands
RECURSIVE collect_operands(_, _)
collect_operands(expr, op) ==
    IF expr.kind = "Infix" /\ expr.operator = op
    THEN collect_operands(expr.left, op) \o collect_operands(expr.right, op)
    ELSE <<expr>>

\* slice::sort_by is stable: x goes behind every element that is not greater
RECURSIVE InsertStable(_, _)
InsertStable(sorted, x) ==
    IF sorted = <<>> THEN <<x>>
    ELSE IF SortKeyLess(get_sort_key(x), get_sort_key(Head(sorted)))
    THEN <<x>> \o sorted
    ELSE <<Head(sorted)>> \o InsertStable(Tail(sorted), x)

\* operands left in the order they were collected in
SortOperandsKeepingOrder(operands) == operands

\* operands.sort_by(|a, b| get_sort_key(a).cmp(&get_sort_key(b)))
RECURSIVE SortOperands(_)
SortOperands(operands) ==
    IF operands = <<>> THEN <<>>
    ELSE InsertStable(SortOperands(SubSeq(operands, 1, Len(operands) - 1)),
                      operands[Len(operands)])

\* rebuild_tree: the loop; every new node takes the span of its left operand
RECURSIVE RebuildLoop(_, _, _)
RebuildLoop(left, operands, op) ==
    IF operands = <<>> THEN left
    ELSE RebuildLoop([kind |-> "Infix", left |-> left, operator |-> op,
                      right |-> Head(operands), span |-> left.span], Tail(operands), op)

\* rebuild_tree
rebuild_tree(operands, op) == RebuildLoop(Head(operands), Tail(operands), op)

RECURSIVE normalize_expression(_, _)

\* arguments.into_iter().map(normalize_expression).collect()
RECURSIVE NormalizeExpressions(_, _)
NormalizeExpressions(oc, exprs) ==
    IF exprs = <<>> THEN Done(<<>>)
    ELSE Then(normalize_expression(oc, Head(exprs)), LAMBDA h:
         Then(NormalizeExpressions(oc, Tail(exprs)), LAMBDA t:
              Done(<<h>> \o t)))

\* normalize_expression: the first match, which normalizes the children
NormalizeChildren(oc, expr) ==
    CASE expr.kind = "Infix" ->
            Then(normalize_expression(oc, expr.left), LAMBDA l:
            Then(normalize_expression(oc, expr.right), LAMBDA r:
                 Done([expr EXCEPT !.left = l, !.right = r])))
      [] expr.kind = "Prefix" ->
            Then(normalize_expression(oc, expr.right), LAMBDA r:
                 Done([expr EXCEPT !.right = r]))
      [] expr.kind = "Call" ->
            Then(normalize_expression(oc, expr.function), LAMBDA f:
            Then(NormalizeExpressions(oc, expr.arguments), LAMBDA a:
                 Done([expr EXCEPT !.function = f, !.arguments = a])))
      [] OTHER -> Done(expr)

\* normalize_expression: folding of a Prefix node whose child is normalized
FoldPrefix(oc, e) ==
    CASE e.operator = "Minus" /\ e.right.kind = "IntLiteral" ->
            Then(IntNeg(oc, e.right.int), LAMBDA v:
                 Done([kind |-> "IntLiteral", int |-> v, span |-> e.span]))
      [] e.operator = "Plus" /\ e.right.kind = "IntLiteral" ->
            Done([kind |-> "IntLiteral", int |-> e.right.int, span |-> e.span])
      [] e.operator = "Minus" /\ e.right.kind = "FloatLiteral" ->
            Done([kind |-> "FloatLiteral", float |-> FNeg(e.right.float), span |-> e.span])
      [] e.operator = "Plus" /\ e.right.kind = "FloatLiteral" ->
            Done([kind |-> "FloatLiteral", float |-> e.right.float, span |-> e.span])
      [] OTHER -> Done(e)

\* the Int and Int arm of the folding match
FoldIntInt(oc, l, op, r) ==
    CASE op \in {"Add", "Subtract"} ->
            LET Checked(exact) == Overflowing(oc, InRange(exact), exact, Wrap(exact))
            IN  Checked(IF op = "Add" THEN l + r ELSE l - r)
      [] op = "Multiply" -> IntMul(oc, l, r)
      [] op = "Divide" -> IntDiv(l, r)

\* the three arms of the folding match that build a Float
FoldFloat(l, op, r) ==
    CASE op \in {"Add", "Subtract"} -> FAdd(l, IF op = "Add" THEN r ELSE FNeg(r))
      [] op = "Multiply" -> FMul(l, r)
      [] op = "Divide" -> FDiv(l, r)

\* the operand of a folding arm as f64 (*l as f64)
AsFloat(e) == IF e.kind = "IntLiteral" THEN FFin(e.int < 0, Abs(e.int), 1) ELSE e.float

\* normalize_expression: folding and canonical ordering of an Infix node
\* whose children are normalized
FoldInfix(oc, e) ==
    LET numeric == {"IntLiteral", "FloatLiteral"}
        arithmetic == {"Add", "Subtract", "Multiply", "Divide"}
    IN  IF e.left.kind \in numeric /\ e.right.kind \in numeric /\ e.operator \in arithmetic
        THEN IF e.left.kind = "IntLiteral" /\ e.right.kind = "IntLiteral"
             THEN Then(FoldIntInt(oc, e.left.int, e.operator, e.right.int), LAMBDA v:
                       Done([kind |-> "IntLiteral", int |-> v, span |-> e.span]))
             ELSE Done([kind |-> "FloatLiteral",
                        float |-> FoldFloat(AsFloat(e.left), e.operator, AsFloat(e.right)),
                        span |-> e.span])
        ELSE IF is_commutative(e.operator)
        THEN Done(rebuild_tree(SortOperands(collect_operands(e, e.operator)), e.operator))
        ELSE Done(e)

\* normalize_expression
normalize_expression(oc, expr) ==
    Then(NormalizeChildren(oc, expr), LAMBDA c:
         CASE c.kind = "Prefix" -> FoldPrefix(oc, c)
           [] c.kind = "Infix" -> FoldInfix(oc, c)
           [] OTHER -> Done(c))

\* declarators mapped with value.map(normalize_expression)
RECURSIVE NormalizeDeclarators(_, _)
NormalizeDeclarators(oc, ds) ==
    LET Declarator(d) ==
            Then(IF d.value.some THEN normalize_expression(oc, d.value.val)
                 ELSE Done(None), LAMBDA v:
            Then(NormalizeDeclarators(oc, Tail(ds)), LAMBDA t:
                 Done(<<[d EXCEPT !.value = IF d.value.some THEN Some(v) ELSE None]>> \o t)))
    IN  IF ds = <<>> THEN Done(<<>>) ELSE Declarator(Head(ds))

RECURSIVE normalize_statement(_, _)

\* stmts.into_iter().filter_map(normalize_statement).collect()
RECURSIVE NormalizeStatements(_, _)
NormalizeStatements(oc, stmts) ==
    IF stmts = <<>> THEN Done(<<>>)
    ELSE Then(normalize_statement(oc, Head(stmts)), LAMBDA h:
         Then(NormalizeStatements(oc, Tail(stmts)), LAMBDA t:
              Done((IF h.some THEN <<h.val>> ELSE <<>>) \o t)))

\* an If arm that folds nothing
NormalizeIfKeepingBranches(oc, stmt) == Done(Some(stmt))

\* normalize_statement: the If arm
NormalizeIf(oc, stmt) ==
    Then(normalize_expression(oc, stmt.condition), LAMBDA condition:
         IF condition.kind = "Boolean"
         THEN IF condition.bool THEN normalize_statement(oc, stmt.consequence)
              ELSE IF stmt.alternative.some
              THEN normalize_statement(oc, stmt.alternative.val)
              ELSE Done(None)
         ELSE Then(normalize_statement(oc, stmt.consequence), LAMBDA c:
              Then(IF stmt.alternative.some
                   THEN normalize_statement(oc, stmt.alternative.val)
                   ELSE Done(None), LAMBDA a:
                   Done(Some([stmt EXCEPT
                            !.condition = condition,
                            !.consequence = IF c.some THEN c.val
                                            ELSE [kind |-> "Block", statements |-> <<>>,
                                                  span |-> stmt.consequence.span],
                            !.alternative = a])))))

\* normalize_statement: Option<Statement>, None when the statement is dropped
normalize_statement(oc, stmt) ==
    CASE stmt.kind = "VariableDeclaration" ->
            Then(NormalizeDeclarators(oc, stmt.declarators), LAMBDA ds:
                 Done(Some([stmt EXCEPT !.declarators = ds])))
      [] stmt.kind = "Expression" ->
            Then(normalize_expression(oc, stmt.expr), LAMBDA e:
                 Done(Some([stmt EXCEPT !.expr = e])))
      [] stmt.kind = "Block" ->
            Then(NormalizeStatements(oc, stmt.statements), LAMBDA ss:
                 Done(Some([stmt EXCEPT !.statements = ss])))
      [] stmt.kind = "If" -> NormalizeIf(oc, stmt)
      [] stmt.kind = "Return" /\ stmt.value.some ->
            Then(normalize_expression(oc, stmt.value.val), LAMBDA e:
                 Done(Some([stmt EXCEPT !.value = Some(e)])))
      [] OTHER -> Done(Some(stmt))

\* normalize: the program with its statements normalized, or a fault
normalize(oc, program) ==
    LET Program(ss) ==
            IF ss.panicked THEN [kind |-> "Panic"]
            ELSE [kind |-> "Program", statements |-> ss.val, span |-> program.span]
    IN  Program(NormalizeStatements(oc, program.statements))

-----------------------------------------------------------------------------
(* Sources *)

\* all sequences over A of length at most n
SeqsUpTo(A, n) == UNION {[1..k -> A] : k \in 0..n}

\* byte alphabets: numeric literals, string literals, operators, other bytes,
\* more operators
LexAlphabets ==
    { {"0", "1", "_", ".", "x", "b"},
      {"\"", "'", "\\", "a", " "},
      {"=", "!", "<", ">", "/", "*"},
      {"i", "f", "@", "\n", NUL, HIGH},
      {"&", "|", "+", "-", "=", "~"} }

Src_1_000_000 == <<"1", "_", "0", "0", "0", "_", "0", "0", "0">>
Src_1__0 == <<"1", "_", "_", "0">>
Src__1 == <<"_", "1">>
Src_1_ == <<"1", "_">>
Src_1dot_0 == <<"1", ".", "_", "0">>

Src_0xFFg == <<"0", "x", "F", "F", "g">>
Src_0b1a == <<"0", "b", "1", "a">>
\* the five bytes "a\\" : a quote, a, two backslashes, a quote
Src_a_escaped_backslash == <<"\"", "a", "\\", "\\", "\"">>

LexSources ==
    UNION {SeqsUpTo(A, MaxLen) : A \in LexAlphabets}
    \cup {Src_1_000_000, Src_1__0, Src__1, Src_1_, Src_1dot_0}
    \cup {Src_0xFFg, Src_0b1a, Src_a_escaped_backslash}

\* a source built from fragments separated by single spaces
RECURSIVE Unwords(_)
Unwords(frags) ==
    IF frags = <<>> THEN <<>>
    ELSE IF Len(frags) = 1 THEN Head(frags)
    ELSE Head(frags) \o <<" ">> \o Unwords(Tail(frags))

\* fragment alphabets: Int arithmetic up to the largest Int, Float arithmetic
\* on values f64 holds exactly, lexical failures between tokens, statements,
\* for headers, postfix and logical operators
ParseAlphabets ==
    { {<<"0">>, <<"1">>, NatToStr(I64Max), <<"+">>, <<"-">>, <<"*">>, <<"/">>},
      {<<"0", ".", "0">>, <<"0", ".", "5">>, <<"2">>, <<"+">>, <<"-">>, <<"*">>, <<"/">>},
      {<<"a">>, <<"@">>, <<"1", "_">>, <<"\"", "\\">>, <<";">>, <<"+">>, <<"(">>, <<")">>},
      {<<"i", "f", " ", "(", "t", "r", "u", "e", ")">>, <<"i", "f", " ", "(", "a", ")">>,
       <<"i", "f", " ", "(", "f", "a", "l", "s", "e", ")">>,
       <<"e", "l", "s", "e">>, <<"{">>, <<"}">>, <<"a", ";">>,
       <<"r", "e", "t", "u", "r", "n">>, <<"1", " ", "+", " ", "1", ";">>},
      {<<"f", "o", "r", " ", "(">>, <<"f", "o", "r", " ", "(", "a", ";">>, <<"f", "o", "r", " ", "(", ";">>, <<"a", ";">>,
       <<";">>, <<"a", ")", " ", "{", "}">>, <<")", " ", "{", "}">>,
       <<"a", " ", "i", "n", " ", "a", ")", " ", "{", "}">>},
      {<<"a">>, <<".", "b">>, <<"[", "i", "]">>, <<"(", "a", ")">>, <<"a", "n", "d">>, <<"o", "r">>, <<"&", "&">>, <<"|", "|">>} }

Src_1_plus_f_plus_2 ==
    <<"1", " ", "+", " ", "f", "(", ")", " ", "+", " ", "2">>

\* the spelling of every OperatorToken
OperatorSpellings ==
    {[text |-> <<"=">>, sub |-> "Assign"], [text |-> <<"=", "=">>, sub |-> "Equal"],
     [text |-> <<"=", "=", "=">>, sub |-> "StrictEqual"],
     [text |-> <<"+">>, sub |-> "Plus"], [text |-> <<"-">>, sub |-> "Minus"],
     [text |-> <<"*">>, sub |-> "Asterisk"], [text |-> <<"*", "*">>, sub |-> "Power"],
     [text |-> <<"/">>, sub |-> "Slash"], [text |-> <<"%">>, sub |-> "Percent"],
     [text |-> <<"!">>, sub |-> "Bang"], [text |-> <<"!", "=">>, sub |-> "NotEqual"],
     [text |-> <<"!", "=", "=">>, sub |-> "StrictNotEqual"],
     [text |-> <<"<">>, sub |-> "LessThan"], [text |-> <<"<", "=">>, sub |-> "LessThanOrEqual"],
     [text |-> <<">">>, sub |-> "GreaterThan"],
     [text |-> <<">", "=">>, sub |-> "GreaterThanOrEqual"],
     [text |-> <<"&", "&">>, sub |-> "LogicalAnd"], [text |-> <<"|", "|">>, sub |-> "LogicalOr"],
     [text |-> <<"&">>, sub |-> "BitwiseAnd"], [text |-> <<"|">>, sub |-> "BitwiseOr"],
     [text |-> <<"^">>, sub |-> "BitwiseXor"], [text |-> <<"~">>, sub |-> "BitwiseNot"],
     [text |-> <<"<", "<">>, sub |-> "BitwiseLeftShift"],
     [text |-> <<"<", "<", "<">>, sub |-> "BitwiseUnsignedLeftShift"],
     [text |-> <<">", ">">>, sub |-> "BitwiseRightShift"],
     [text |-> <<">", ">", ">">>, sub |-> "BitwiseUnsignedRightShift"]}

\* the operators that token_precedence ranks above Lowest
InfixSpellings ==
    {o \in OperatorSpellings :
        token_precedence([kind |-> "Operator", sub |-> o.sub]) > Precedence.Lowest}

\* x op1 y op2 z for every pair of them
GroupingSources ==
    {Unwords(<<<<"x">>, o1.text, <<"y">>, o2.text, <<"z">>>>) : o1, o2 \in InfixSpellings}

\* for ( init? ; condition? ; update? ) {} with the chosen clauses present
ForSource(has_init, has_condition, has_update) ==
    Unwords(<<<<"f", "o", "r">>, <<"(">>,
              IF has_init THEN <<"i", " ", "=", " ", "0">> ELSE <<>>, <<";">>,
              IF has_condition THEN <<"i", " ", "<", " ", "1", "0">> ELSE <<>>, <<";">>,
              IF has_update THEN <<"i", " ", "=", " ", "i", " ", "+", " ", "1">> ELSE <<>>, <<")">>, <<"{", "}">>>>)

ForSources == {ForSource(i, c, u) : i \in BOOLEAN, c \in BOOLEAN, u \in BOOLEAN}

Src_a_index_i == <<"a", "[", "i", "]">>
Src_a_dot_b == <<"a", ".", "b">>
Src_a_dot_b_index_i_dot_c == <<"a", ".", "b", "[", "i", "]", ".", "c">>
Src_a_and_b == <<"a", " ", "a", "n", "d", " ", "b">>
Src_a_or_b == <<"a", " ", "o", "r", " ", "b">>
Src_a_andalso_b == <<"a", " ", "&", "&", " ", "b">>
Src_minus_7_div_2 == <<"-", "7", " ", "/", " ", "2">>
Src_7_div_minus_2 == <<"7", " ", "/", " ", "-", "2">>
Src_Int_a_is_1_plus_2 == <<"I", "n", "t", " ", "a", " ", "=", " ", "1", " ", "+", " ", "2", ";">>

\* programs with one statement of every kind the parser builds
StatementSources ==
    {<<"f", "u", "n", "c", "t", "i", "o", "n", " ", "I", "n", "t", " ", "f", "(", "I", "n", "t", " ", "a", ",", " ", "I", "n", "t", " ", "b", " ", "=", " ", "2", ")", " ", "{", " ", "r", "e", "t", "u", "r", "n", " ", "a", ";", " ", "}">>,
     <<"c", "l", "a", "s", "s", " ", "A", " ", "e", "x", "t", "e", "n", "d", "s", " ", "B", " ", "{", " ", "s", "u", "b", " ", "f", "(", ")", " ", "{", "}", " ", "}">>,
     <<"a", " ", "=", " ", "{", "1", ":", " ", "(", "2", ")", "}">>,
     <<"w", "h", "i", "l", "e", " ", "(", "1", ")", " ", "x">>,
     <<"I", "n", "t", " ", "a", " ", "=", " ", "1", ",", " ", "b", ";">>,
     <<"(", "f", ")", "(", "1", ",", " ", "2", ")", "(", "3", ")">>,
     <<"[", "1", ",", " ", "(", "0", "x", "2", ")", "]">>,
     <<"f", "o", "r", " ", "(", "a", " ", "i", "n", " ", "b", ")", " ", "c">>,
     <<"i", "f", " ", "(", "a", ")", " ", "{", " ", "b", ";", " ", "}", " ", "e", "l", "s", "e", " ", "c">>,
     <<"-", "(", "a", ")", " ", "*", " ", "(", "b", ")">>,
     <<"\"", "s", "\"", " ", "+", " ", "'", "a">>,
     <<"{", " ", "a">>}

\* if statements with a constant condition, alone, in a block, as a branch of
\* another if and as the body of a while
DeadBranchSources ==
    {<<"i", "f", " ", "(", "t", "r", "u", "e", ")", " ", "a", ";", " ", "e", "l", "s", "e", " ", "b", ";">>,
     <<"i", "f", " ", "(", "f", "a", "l", "s", "e", ")", " ", "a", ";", " ", "e", "l", "s", "e", " ", "b", ";">>,
     <<"i", "f", " ", "(", "f", "a", "l", "s", "e", ")", " ", "a", ";">>,
     <<"i", "f", " ", "(", "f", "a", "l", "s", "e", ")", " ", "a", ";", " ", "b", ";">>,
     <<"{", " ", "i", "f", " ", "(", "f", "a", "l", "s", "e", ")", " ", "a", ";", " ", "b", ";", " ", "}">>,
     <<"i", "f", " ", "(", "c", ")", " ", "i", "f", " ", "(", "f", "a", "l", "s", "e", ")", " ", "a", ";">>,
     <<"i", "f", " ", "(", "c", ")", " ", "a", ";", " ", "e", "l", "s", "e", " ", "i", "f", " ", "(", "f", "a", "l", "s", "e", ")", " ", "b", ";">>,
     <<"i", "f", " ", "(", "t", "r", "u", "e", ")", " ", "i", "f", " ", "(", "f", "a", "l", "s", "e", ")", " ", "a", ";">>,
     <<"i", "f", " ", "(", "c", ")", " ", "{", " ", "i", "f", " ", "(", "t", "r", "u", "e", ")", " ", "1", " ", "+", " ", "2", ";", " ", "}">>,
     <<"i", "f", " ", "(", "(", "f", "a", "l", "s", "e", ")", ")", " ", "{", "}", " ", "e", "l", "s", "e", " ", "{", " ", "1", " ", "/", " ", "0", ";", " ", "}">>,
     <<"w", "h", "i", "l", "e", " ", "(", "c", ")", " ", "i", "f", " ", "(", "f", "a", "l", "s", "e", ")", " ", "a", ";">>,
     <<"i", "f", " ", "(", "t", "r", "u", "e", ")", " ", "{", " ", "i", "f", " ", "(", "f", "a", "l", "s", "e", ")", " ", "a", ";", " ", "e", "l", "s", "e", " ", "2", " ", "*", " ", "3", ";", " ", "}">>}

\* operands of every sort-key class: identifiers, Int literals, a String
\* literal, a call, null and a Boolean
CommutativeOperands ==
    {<<"b">>, <<"a">>, <<"2">>, <<"1", "0">>, <<"\"", "s", "\"">>, <<"f", "(", ")">>, <<"n", "u", "l", "l">>, <<"t", "r", "u", "e">>}

\* the two commutative operators and one that is not
CommutativeOperators == {<<"+">>, <<"*">>, <<"-">>}

\* x op y and x op1 y op2 z over these operands, and chains whose operands
\* are nested, parenthesised on the right, or Float literals
CommutativeSources ==
    {Unwords(<<x, o, y>>) : x \in CommutativeOperands, o \in CommutativeOperators,
                            y \in CommutativeOperands}
    \cup {Unwords(<<x, o1, y, o2, z>>) :
              x \in CommutativeOperands, o1 \in {<<"+">>, <<"*">>}, y \in CommutativeOperands,
              o2 \in CommutativeOperators, z \in CommutativeOperands}
    \cup {<<"c", " ", "+", " ", "(", "b", " ", "+", " ", "a", ")">>,
          <<"(", "d", " ", "*", " ", "c", ")", " ", "*", " ", "(", "b", " ", "*", " ", "a", ")">>,
          <<"b", " ", "+", " ", "a", " ", "*", " ", "c">>,
          <<"c", " ", "-", " ", "(", "b", " ", "+", " ", "a", ")">>,
          <<"f", "(", "b", " ", "+", " ", "a", ")", " ", "+", " ", "1">>,
          <<"d", " ", "+", " ", "c", " ", "+", " ", "b", " ", "+", " ", "a">>,
          <<"1", ".", "5", " ", "+", " ", "a", " ", "+", " ", "0", ".", "5">>,
          <<"-", "(", "b", " ", "+", " ", "a", ")">>,
          <<"(", "b", " ", "-", " ", "a", ")", " ", "+", " ", "(", "d", " ", "-", " ", "c", ")", " ", "+", " ", "x">>,
          <<"g", "(", ")", " ", "*", " ", "f", "(", ")", " ", "*", " ", "2", " ", "*", " ", "a">>,
          <<"\"", "b", "\"", " ", "+", " ", "\"", "a", "\"">>,
          <<"f", "(", ")", " ", "+", " ", "\"", "s", "\"", " ", "+", " ", "n", "u", "l", "l">>}

\* a foldable expression under every kind of expression node the parser
\* builds, and as an initializer and a return value
FoldingSources ==
    {<<"x", " ", "=", " ", "1", " ", "+", " ", "2">>,
     <<"[", "1", " ", "+", " ", "2", "]">>,
     <<"f", "(", "{", "1", ":", " ", "1", " ", "+", " ", "2", "}", ")">>,
     <<"f", "(", "1", " ", "+", " ", "2", ")">>,
     <<"-", "(", "1", " ", "+", " ", "2", ")">>,
     <<"I", "n", "t", " ", "a", " ", "=", " ", "1", " ", "+", " ", "2", ";">>,
     <<"r", "e", "t", "u", "r", "n", " ", "1", " ", "+", " ", "2", ";">>,
     <<"x", " ", "=", " ", "y", " ", "=", " ", "2", " ", "*", " ", "3">>,
     <<"[", "a", ",", " ", "[", "2", " ", "-", " ", "1", "]", "]">>,
     <<"x", " ", "=", " ", "-", "(", "1", ")">>}

\* longest for header drawn over the fragments of the probe
ProbeLen == 4

\* for headers over the tokens the probe of is_for_each_loop tells apart
ProbeSources ==
    {Unwords(<<<<"f", "o", "r", " ", "(">>>> \o fs) :
         fs \in SeqsUpTo({<<"a">>, <<"i", "n">>, <<"o", "f">>, <<";">>, <<"(">>, <<")">>}, ProbeLen)}

\* sources that end inside a construct parsed by a loop (class members,
\* object pairs, parameters, arguments, elements, declarators, for headers,
\* blocks), and blocks that are closed
TruncatedSources ==
    {<<"c", "l", "a", "s", "s", " ", "A", " ", "{">>,
     <<"c", "l", "a", "s", "s", " ", "A", " ", "{", " ", "s", "u", "b", " ", "f", "(", ")", " ", "{">>,
     <<"c", "l", "a", "s", "s", " ", "A", " ", "{", " ", "s", "u", "b", " ", "f", "(", ")", " ", "{", "}", " ", "s", "u", "b">>,
     <<"a", " ", "=", " ", "{">>,
     <<"a", " ", "=", " ", "{", "1", ":">>,
     <<"a", " ", "=", " ", "{", "1", ":", " ", "2">>,
     <<"a", " ", "=", " ", "{", "1", ":", " ", "2", ",">>,
     <<"f", "u", "n", "c", "t", "i", "o", "n", " ", "I", "n", "t", " ", "f", "(">>,
     <<"f", "u", "n", "c", "t", "i", "o", "n", " ", "I", "n", "t", " ", "f", "(", "I", "n", "t", " ", "a">>,
     <<"f", "u", "n", "c", "t", "i", "o", "n", " ", "I", "n", "t", " ", "f", "(", "I", "n", "t", " ", "a", ",">>,
     <<"f", "u", "n", "c", "t", "i", "o", "n", " ", "I", "n", "t", " ", "f", "(", "I", "n", "t", " ", "a", " ", "=", " ">>,
     <<"f", "(">>,
     <<"f", "(", "a">>,
     <<"f", "(", "a", ",">>,
     <<"[">>,
     <<"[", "a">>,
     <<"[", "a", ",">>,
     <<"I", "n", "t", " ", "a", " ", "=", " ", "1", ",">>,
     <<"I", "n", "t", " ", "a">>,
     <<"f", "o", "r", " ", "(">>,
     <<"f", "o", "r", " ", "(", "a">>,
     <<"f", "o", "r", " ", "(", "a", " ", "i", "n">>,
     <<"f", "o", "r", " ", "(", "(">>,
     <<"f", "o", "r", " ", "(", "a", " ", "i", "n", " ", "b", ")", " ", "{">>,
     <<"w", "h", "i", "l", "e", " ", "(">>,
     <<"w", "h", "i", "l", "e", " ", "(", "a", ")", " ", "{">>,
     <<"i", "f", " ", "(", "a", ")", " ", "{">>,
     <<"i", "f", " ", "(", "a", ")", " ", "{", "}", " ", "e", "l", "s", "e", " ", "{">>,
     <<"s", "u", "b", " ", "f", "(", ")", " ", "{">>,
     <<"f", "u", "n", "c", "t", "i", "o", "n", " ", "I", "n", "t", " ", "f", "(", ")", " ", "{", " ", "{">>,
     <<"{", " ", "{", " ", "a", ";", " ", "}">>,
     <<"{", " ", "a", ";", " ", "}">>,
     <<"a", " ", "+", " ", "(">>,
     <<"r", "e", "t", "u", "r", "n">>}

ParseSources ==
    {Unwords(fs) : fs \in UNION {SeqsUpTo(A, MaxFrags) : A \in ParseAlphabets}}
    \cup {Src_1_plus_f_plus_2}
    \cup GroupingSources \cup ForSources
    \cup {Src_a_index_i, Src_a_dot_b, Src_a_dot_b_index_i_dot_c}
    \cup {Src_a_and_b, Src_a_or_b, Src_a_andalso_b}
    \cup {Src_minus_7_div_2, Src_7_div_minus_2, Src_Int_a_is_1_plus_2}
    \cup StatementSources \cup DeadBranchSources \cup CommutativeSources
    \cup FoldingSources \cup ProbeSources \cup TruncatedSources

\* a variable that holds no token or result yet
NoResult == [kind |-> "None"]

-----------------------------------------------------------------------------
(* Spec: the lexer entry point of lib.rs, one loop iteration per step *)

\* LexerCollect pushing before it tests for Eof
LexerCollectPushFirst(toks, tok) == Append(toks, tok)

\* lib.rs lexer(): what the loop does with a token (break on Eof, else push)
LexerCollect(toks, tok) == IF tok.kind = "Eof" THEN toks ELSE Append(toks, tok)

Init ==
    /\ input \in LexSources
    /\ lexer = LexerNew(input)
    /\ tokens = <<>>
    /\ last_token = NoResult
    /\ calls = 0
    /\ lex_status = "running"
    /\ stage = "lex"
    /\ Lexed = <<>>
    /\ parser_state = NoResult
    /\ program_start = 0
    /\ parsed = <<>>
    /\ parse_result = NoResult
    /\ raised = <<>>
    /\ norm1 = NoResult
    /\ norm2 = NoResult
    /\ overflow_checks = FALSE

\* lib.rs lexer(): one iteration of the loop around lexer.next_token()
LexerStep ==
    /\ stage = "lex"
    /\ lex_status = "running"
    /\ LET r == next_token(input, lexer)
       IN  /\ lexer' = r.lexer
           /\ calls' = calls + 1
           /\ IF r.lexer.panicked
              THEN /\ lex_status' = "panic"
                   /\ UNCHANGED <<tokens, last_token>>
              ELSE /\ last_token' = r.tok
                   /\ tokens' = LexerCollect(tokens, r.tok)
                   /\ lex_status' = IF r.tok.kind = "Eof" THEN "ok" ELSE "running"
    /\ UNCHANGED <<input, stage, Lexed, parser_state, program_start, parsed, parse_result,
                   raised, norm1, norm2, overflow_checks>>

Next == LexerStep

Spec == Init /\ [][Next]_vars

-----------------------------------------------------------------------------
(* SpecParse: the parser entry point of lib.rs, one iteration of the       *)
(* statement loop of parse_program per step, followed by two passes of the *)
(* normalizer over the program it returns                                  *)

\* lib.rs parser(): the state after Lexer::new, Parser::new and the first
\* line of parse_program
InitParse ==
    /\ input \in ParseSources
    /\ lexer = LexerNew(input)
    /\ tokens = <<>>
    /\ last_token = NoResult
    /\ calls = 0
    /\ lex_status = "running"
    /\ stage = "parse"
    /\ Lexed = LexerResults(input, LexerNew(input), Len(input) + 3)
    /\ parser_state = ParserNew(input, Lexed)
    /\ program_start = parser_state.cur_token.span.start
    /\ parsed = <<>>
    /\ parse_result = NoResult
    /\ raised = <<>>
    /\ norm1 = NoResult
    /\ norm2 = NoResult
    /\ overflow_checks \in BOOLEAN

\* parse_program: the loop runs while cur_token is not Eof (a lexer that
\* faulted has ended the run)
ParseRunning ==
    /\ stage = "parse"
    /\ ~parser_state.lexer.panicked
    /\ parser_state.cur_token.kind # "Eof"

\* parse_program: one iteration of the while loop
ParseStep ==
    /\ ParseRunning
    /\ LET Continue(s) ==
               /\ parser_state' = s.p
               /\ parsed' = s.val
       IN  Continue(ProgramStep(Lexed, parser_state, parsed))
    /\ UNCHANGED <<input, lexer, tokens, last_token, calls, lex_status, stage, Lexed,
                   program_start, parse_result, raised, norm1, norm2, overflow_checks>>

\* parse_program after the loop, and the ParserResult lib.rs builds from it
ParseReturn ==
    /\ stage = "parse"
    /\ ~ParseRunning
    /\ LET Return(r, res) ==
               /\ parse_result' = res
               /\ raised' = r.accumulated
               /\ stage' = IF res.kind = "Returned" /\ res.ast.some THEN "normalize"
                           ELSE "done"
           Run(r) == Return(r, ParserResultOf(r))
       IN  Run([panicked |-> parser_state.lexer.panicked,
                accumulated |-> parser_state.errors,
                result |-> ProgramResult(parser_state, parsed, program_start)])
    /\ UNCHANGED <<input, lexer, tokens, last_token, calls, lex_status, Lexed,
                   parser_state, program_start, parsed, norm1, norm2, overflow_checks>>

\* normalize applied to the program the parser returned
Normalize ==
    /\ stage = "normalize"
    /\ norm1' = normalize(overflow_checks, parse_result.ast.val)
    /\ stage' = IF norm1'.kind = "Panic" THEN "done" ELSE "renormalize"
    /\ UNCHANGED <<input, lexer, tokens, last_token, calls, lex_status, Lexed,
                   parser_state, program_start, parsed, parse_result, raised, norm2,
                   overflow_checks>>

\* normalize applied to the normalized program
Renormalize ==
    /\ stage = "renormalize"
    /\ norm2' = normalize(overflow_checks, norm1)
    /\ stage' = "done"
    /\ UNCHANGED <<input, lexer, tokens, last_token, calls, lex_status, Lexed,
                   parser_state, program_start, parsed, parse_result, raised, norm1,
                   overflow_checks>>

NextParse == ParseStep \/ ParseReturn \/ Normalize \/ Renormalize

SpecParse == InitParse /\ [][NextParse]_vars

\* the sources with one statement of every kind, and those that end inside
\* a construct
InitTerminate ==
    /\ InitParse
    /\ input \in StatementSources \cup TruncatedSources \cup DeadBranchSources
                  \cup ForSources \cup FoldingSources

\* parse_program runs once called: an iteration of its loop and the return
\* from it are taken when they can be.
\* For the iteration this is WF_vars(ParseStep) with ENABLED <<ParseStep>>_vars
\* written as the state predicate it equals, ParseRunning: an iteration
\* changes parser_state wherever it fetches a token.
ParserRuns ==
    /\ []<>(~ParseRunning) \/ []<><<ParseStep>>_vars
    /\ WF_vars(ParseReturn)

SpecTerminate == InitTerminate /\ [][NextParse]_vars /\ ParserRuns

-----------------------------------------------------------------------------
(* Properties of the lexer (Spec) *)

\* the call bound while the loop runs and when it has ended at Eof
C2_CallBound ==
    /\ lex_status = "running" => calls <= lexer.position /\ calls <= Len(input)
    /\ lex_status = "ok" => calls <= Len(input) + 1 /\ last_token.kind = "Eof"
\* a call that returns a token other than Eof moves position forward
C2_Progress ==
    (LexerStep /\ lex_status' = "running") => lexer'.position >= lexer.position + 1
\* what holds of the calls that return: the bound and the progress
C2_ReturningCalls == []C2_CallBound /\ [][C2_Progress]_vars

\* C2: for every source, repeated next_token calls reach Eof within |S|+1
\* calls: every call made has returned, the calls that returned a token
\* other than Eof have each consumed at least one byte, and the call that
\* ends the loop returns Eof and is at most call number |S|+1
CexC2 ==
    /\ lex_status \in {"running", "ok"}
    /\ C2_CallBound

\* C3: the lexer never panics: no next_token call slices the input beyond
\* its length, whatever the bytes of the source
CexC3 == lex_status # "panic"

\* C7: every emitted token has 0 <= start <= end <= |S|, the span of an
\* identifier is its text, the span of a string literal is the literal with
\* both quotes, a numeric literal starts at its first digit (the 0 of a radix
\* prefix), and successive spans do not overlap
SpanText(t) == Slice(input, t.span.start, t.span.end)
C7_Token(t) ==
    /\ 0 <= t.span.start /\ t.span.start <= t.span.end /\ t.span.end <= Len(input)
    /\ t.kind = "Identifier" => SpanText(t) = t.text
    /\ t.kind = "Literal" /\ t.sub = "String" =>
          /\ t.span.end - t.span.start = Len(t.text) + 2
          /\ SpanText(t) = <<input[t.span.start + 1]>> \o t.text \o <<input[t.span.start + 1]>>
    /\ t.kind = "Literal" /\ t.sub \in {"Int", "Float"} =>
          /\ input[t.span.start + 1] \in Digits
          /\ t.span.start >= 2 =>
                ~(input[t.span.start - 1] = "0" /\ input[t.span.start] \in {"x", "X", "b", "B"})
CexC7 ==
    /\ \A i \in 1..Len(tokens) : C7_Token(tokens[i])
    /\ \A i \in 2..Len(tokens) : tokens[i - 1].span.end <= tokens[i].span.start
    /\ last_token.kind = "Eof" => last_token.span.end <= Len(input)

CexC10 ==
    calls = 1 /\ lex_status # "panic" =>
        /\ input = Src_1_000_000 =>
              last_token.kind = "Literal" /\ last_token.sub = "Int" /\ last_token.int = 1000000
        /\ input \in {Src_1__0, Src__1, Src_1_, Src_1dot_0} => last_token.kind = "Illegal"

\* the index (from 1) of the first quote byte at or after i that is not the
\* byte after a backslash, a backslash escaping exactly the one byte after
\* it; 0 when the source ends before such a quote
RECURSIVE ClosingQuote(_, _, _)
ClosingQuote(inp, i, quote_char) ==
    IF i > Len(inp) THEN 0
    ELSE IF inp[i] = "\\" THEN ClosingQuote(inp, i + 2, quote_char)
    ELSE IF inp[i] = quote_char THEN i
    ELSE ClosingQuote(inp, i + 1, quote_char)

\* the source opens with a quote
OpensString == input # <<>> /\ input[1] \in {"\"", "'"}

\* C11: a string literal for which the end of input is reached before a
\* matching unescaped closing quote yields a lexical error and never a
\* String literal token
CexC11 ==
    calls = 1 /\ lex_status # "panic" /\ OpensString
    /\ ClosingQuote(input, 2, input[1]) = 0 =>
        /\ ~(last_token.kind = "Literal" /\ last_token.sub = "String")
        /\ last_token.kind = "Illegal"

\* C12: a backslash inside a string literal escapes exactly the one byte
\* after it, so the literal ends at the first quote that is preceded by an
\* even number of backslashes: the token is the String literal whose raw
\* content is the bytes between the opening quote and that quote
CexC12 ==
    calls = 1 /\ OpensString /\ ClosingQuote(input, 2, input[1]) # 0 =>
        /\ lex_status # "panic"
        /\ last_token.kind = "Literal" /\ last_token.sub = "String"
        /\ last_token.text = Slice(input, 1, ClosingQuote(input, 2, input[1]) - 1)
        /\ lexer.position = ClosingQuote(input, 2, input[1])

\* the source opens with the prefix of a hex or binary literal
OpensRadixLiteral ==
    Len(input) >= 2 /\ input[1] = "0" /\ input[2] \in {"x", "X", "b", "B"}

\* C13: an alphabetic byte immediately after a hex or binary literal is a
\* lexical error: the literal is not emitted as a number with the byte left
\* to start an identifier
CexC13 ==
    calls = 1 /\ OpensRadixLiteral /\ lexer.ch \in LowerLetters \cup UpperLetters =>
        last_token.kind = "Illegal"

\* the operators that are a prefix of the input from byte offset pos on
OperatorsAt(inp, pos) ==
    {o \in OperatorSpellings :
        pos + Len(o.text) <= Len(inp) /\ Slice(inp, pos, pos + Len(o.text)) = o.text}

\* the longest of them
LongestOperatorAt(inp, pos) ==
    CHOOSE o \in OperatorsAt(inp, pos) :
        \A o2 \in OperatorsAt(inp, pos) : Len(o2.text) <= Len(o.text)

\* a next_token call whose token starts at an operator byte returns the
\* longest operator that is a prefix of the remaining input
C14_MaximalMunch ==
    LET l == skip_whitespace(input, lexer)
    IN  LexerStep /\ OperatorsAt(input, l.position) # {} =>
            /\ last_token'.kind = "Operator"
            /\ last_token'.sub = LongestOperatorAt(input, l.position).sub
            /\ last_token'.span =
                    Span(l.position, l.position + Len(LongestOperatorAt(input, l.position).text))
            /\ lexer'.position = last_token'.span.end

\* a / that is followed by / or * is never the Slash operator
C14_Slash ==
    \A i \in 1..Len(tokens) :
        tokens[i].kind = "Operator" /\ tokens[i].sub = "Slash" =>
            \/ tokens[i].span.end >= Len(input)
            \/ input[tokens[i].span.end + 1] \notin {"/", "*"}

\* C14: maximal munch for operators: at every position the lexer emits the
\* longest operator that is a prefix of the remaining input, so ===, !==,
\* <<< and >>> are single tokens, and / is the Slash operator unless it is
\* immediately followed by / or *
TheoremC14 == []C14_Slash /\ [][C14_MaximalMunch]_vars

\* C14 witness: === lexed as one token and followed by a Slash
WitnessC14 ==
    /\ Len(tokens) = 2
    /\ tokens[1].sub = "StrictEqual" /\ tokens[1].span = Span(0, 3)
    /\ tokens[2].sub = "Slash"

-----------------------------------------------------------------------------
(* Properties of the parser and the normalizer (SpecParse) *)

\* a token sequence holds an Illegal token
HasIllegal(toks) == \E i \in 1..Len(toks) : toks[i].kind = "Illegal"

\* the parse has been run and has handed an AST back
ParsedOk == stage # "parse" /\ parse_result.kind = "Returned" /\ parse_result.ast.some

\* the first pass of the normalizer over the returned AST has been run
Normalized == ParsedOk /\ stage \in {"renormalize", "done"}

\* what holds of a ParserResult that is returned: exactly one of ast and
\* errors, an AST only when nothing was accumulated, otherwise all of the
\* accumulated diagnostics
C1_Returned ==
    parse_result.kind = "Returned" =>
        /\ parse_result.ast.some # parse_result.errors.some
        /\ parse_result.ast.some => raised = <<>>
        /\ parse_result.errors.some =>
              raised # <<>> /\ parse_result.errors.val = raised

\* C1: for every source, parse returns exactly one of an AST with no errors
\* or a non-empty list of diagnostics with no AST; the AST only if no
\* diagnostic was accumulated, otherwise all accumulated diagnostics
CexC1 ==
    stage # "parse" => parse_result.kind = "Returned" /\ C1_Returned

\* C4: normalize completes and returns a Program for every AST the parser
\* produces, also for an Int division by the literal 0 and for Int
\* operations whose exact result is outside the integer range
CexC4 == Normalized => norm1.kind = "Program"

\* an expression without its spans
RECURSIVE StripE(_), StripEs(_)
StripEs(es) == IF es = <<>> THEN <<>> ELSE <<StripE(Head(es))>> \o StripEs(Tail(es))
StripE(e) ==
    CASE e.kind = "IntLiteral" -> <<"Int", e.int>>
      [] e.kind = "FloatLiteral" -> <<"Float", e.float>>
      [] e.kind = "StringLiteral" -> <<"String", e.text>>
      [] e.kind = "Boolean" -> <<"Boolean", e.bool>>
      [] e.kind = "Identifier" -> <<"Identifier", e.text>>
      [] e.kind = "NullLiteral" -> <<"Null">>
      [] e.kind = "Prefix" -> <<"Prefix", e.operator, StripE(e.right)>>
      [] e.kind = "Infix" -> <<"Infix", StripE(e.left), e.operator, StripE(e.right)>>
      [] e.kind = "Call" -> <<"Call", StripE(e.function), StripEs(e.arguments)>>
      [] e.kind = "Assignment" -> <<"Assignment", StripE(e.left), StripE(e.right)>>
      [] e.kind = "ArrayLiteral" -> <<"Array", StripEs(e.elements)>>
      [] e.kind = "Index" -> <<"Index", StripE(e.left), StripE(e.index)>>
      [] e.kind = "Member" -> <<"Member", StripE(e.left), e.property>>
      [] OTHER -> <<"Other", e>>

\* a statement without the spans of the expressions the normalizer rewrites
RECURSIVE StripS(_), StripSs(_)
StripSs(ss) == IF ss = <<>> THEN <<>> ELSE <<StripS(Head(ss))>> \o StripSs(Tail(ss))
StripS(s) ==
    CASE s.kind = "Expression" -> <<"Expression", StripE(s.expr)>>
      [] s.kind = "Block" -> <<"Block", StripSs(s.statements)>>
      [] s.kind = "Return" ->
            <<"Return", IF s.value.some THEN StripE(s.value.val) ELSE <<>> >>
      [] s.kind = "If" ->
            <<"If", StripE(s.condition), StripS(s.consequence),
              IF s.alternative.some THEN StripS(s.alternative.val) ELSE <<>> >>
      [] OTHER -> <<"Other", s>>

\* C5: normalize(normalize(P)) is structurally equal to normalize(P)
\* (spans aside), e.g. for the program 1 + f() + 2
CexC5 ==
    stage = "done" /\ Normalized /\ norm1.kind = "Program" =>
        /\ norm2.kind = "Program"
        /\ StripSs(norm2.statements) = StripSs(norm1.statements)

\* an Infix division of a numeric literal by a zero literal
IsDivisionByZero(e) ==
    /\ e.kind = "Infix" /\ e.operator = "Divide"
    /\ e.left.kind \in {"IntLiteral", "FloatLiteral"}
    /\ \/ e.right.kind = "IntLiteral" /\ e.right.int = 0
       \/ e.right.kind = "FloatLiteral" /\ IsZero(e.right.float)

\* C6: a program that is the one expression statement L / R, with L a
\* numeric literal and R a zero literal, is normalized to itself: the Infix
\* node is kept verbatim and is not replaced by a literal
CexC6 ==
    LET stmts == parse_result.ast.val.statements
    IN  (/\ Normalized
         /\ Len(stmts) = 1
         /\ stmts[1].kind = "Expression"
         /\ IsDivisionByZero(stmts[1].expr)) =>
            /\ norm1.kind = "Program"
            /\ norm1.statements = stmts

\* what holds of a ParserResult that is returned: an Illegal token among the
\* tokens of the source leaves no AST
C9_Returned ==
    parse_result.kind = "Returned" /\ HasIllegal(LexAll(input, LexerNew(input))) =>
        ~parse_result.ast.some /\ parse_result.errors.some

\* C9: if lexing the source produces an Illegal token at any position, parse
\* returns a non-empty list of diagnostics and no AST
CexC9 ==
    stage # "parse" /\ HasIllegal(LexAll(input, LexerNew(input))) =>
        /\ parse_result.kind = "Returned"
        /\ ~parse_result.ast.some
        /\ parse_result.errors.some /\ parse_result.errors.val # <<>>
\* the values of a sequence of Option fields that are present
RECURSIVE Present(_)
Present(opts) ==
    IF opts = <<>> THEN <<>>
    ELSE (IF Head(opts).some THEN <<Head(opts).val>> ELSE <<>>) \o Present(Tail(opts))

\* the key and the value of every pair of an object literal
RECURSIVE PairNodes(_)
PairNodes(pairs) ==
    IF pairs = <<>> THEN <<>> ELSE <<Head(pairs)[1], Head(pairs)[2]>> \o PairNodes(Tail(pairs))

\* the child nodes of an expression or a statement of ast.rs
ChildNodes(n) ==
    CASE n.kind = "Prefix" -> <<n.right>>
      [] n.kind \in {"Infix", "Assignment"} -> <<n.left, n.right>>
      [] n.kind = "Call" -> <<n.function>> \o n.arguments
      [] n.kind = "ArrayLiteral" -> n.elements
      [] n.kind = "ObjectLiteral" -> PairNodes(n.pairs)
      [] n.kind = "Index" -> <<n.left, n.index>>
      [] n.kind = "Member" -> <<n.left>>
      [] n.kind = "Expression" -> <<n.expr>>
      [] n.kind = "Block" -> n.statements
      [] n.kind = "VariableDeclaration" ->
            Present([i \in 1..Len(n.declarators) |-> n.declarators[i].value])
      [] n.kind = "FunctionDeclaration" ->
            Present([i \in 1..Len(n.params) |-> n.params[i].value]) \o <<n.body>>
      [] n.kind = "ClassDeclaration" -> n.members
      [] n.kind = "If" -> <<n.condition, n.consequence>> \o Present(<<n.alternative>>)
      [] n.kind = "For" -> Present(<<n.init, n.condition, n.update>>) \o <<n.body>>
      [] n.kind = "ForEach" -> <<n.iterable, n.body>>
      [] n.kind = "While" -> <<n.condition, n.body>>
      [] n.kind = "Return" -> Present(<<n.value>>)
      [] OTHER -> <<>>

\* end >= start in the span of n and of every node below it, and the span of
\* every child within the span of its parent
RECURSIVE SpansNested(_)
SpansNested(n) ==
    /\ n.span.start <= n.span.end
    /\ \A i \in 1..Len(ChildNodes(n)) :
          /\ n.span.start <= ChildNodes(n)[i].span.start
          /\ ChildNodes(n)[i].span.end <= n.span.end
          /\ SpansNested(ChildNodes(n)[i])

\* the number of nodes on the longest path from n down to a leaf
RECURSIVE Depth(_)
Depth(n) ==
    LET below == {Depth(ChildNodes(n)[i]) : i \in 1..Len(ChildNodes(n))}
    IN  1 + (IF below = {} THEN 0 ELSE CHOOSE d \in below : \A e \in below : e <= d)

\* C15: in every AST the parser returns, every node's span has end >= start
\* and every child's span is contained in its parent's span, for the
\* statements, the expressions and the Program root
TheoremC15 ==
    ParsedOk =>
        LET program == parse_result.ast.val
        IN  /\ program.span.start <= program.span.end
            /\ \A i \in 1..Len(program.statements) :
                  /\ program.span.start <= program.statements[i].span.start
                  /\ program.statements[i].span.end <= program.span.end
                  /\ SpansNested(program.statements[i])

\* C15 witness: a returned AST with an Infix node under an Infix node under
\* a statement
WitnessC15 ==
    /\ ParsedOk
    /\ \E i \in 1..Len(parse_result.ast.val.statements) :
          LET st == parse_result.ast.val.statements[i]
          IN  /\ st.kind = "Expression" /\ st.expr.kind = "Infix"
              /\ st.expr.right.kind = "Infix"
              /\ Depth(st) >= 4

\* the parser has returned an AST that is the one expression statement of
\* the given shape (spans aside)
ParsesToExpression(shape) ==
    /\ ParsedOk
    /\ Len(parse_result.ast.val.statements) = 1
    /\ parse_result.ast.val.statements[1].kind = "Expression"
    /\ StripE(parse_result.ast.val.statements[1].expr) = shape

\* shapes of expressions
Name(text) == <<"Identifier", text>>
Assignment(left, right) == <<"Assignment", left, right>>
Infix(left, operator, right) == <<"Infix", left, operator, right>>

\* C16: a C-style for header parses whichever of init, condition and update
\* are omitted: for ( init? ; condition? ; update? ) {} yields the one For
\* statement whose omitted fields are None and whose present fields are the
\* parsed parts i = 0, i < 10 and i = i + 1, e.g. for (;;) {}
CexC16 ==
    \A has_init \in BOOLEAN, has_condition \in BOOLEAN, has_update \in BOOLEAN :
        stage # "parse" /\ input = ForSource(has_init, has_condition, has_update) =>
            /\ ParsedOk
            /\ Len(parse_result.ast.val.statements) = 1
            /\ LET for == parse_result.ast.val.statements[1]
               IN  /\ for.kind = "For"
                   /\ for.init.some = has_init
                   /\ for.condition.some = has_condition
                   /\ for.update.some = has_update
                   /\ has_init =>
                         StripS(for.init.val) =
                             <<"Expression", Assignment(Name(<<"i">>), <<"Int", 0>>)>>
                   /\ has_condition =>
                         StripE(for.condition.val) =
                             Infix(Name(<<"i">>), "LessThan", <<"Int", 10>>)
                   /\ has_update =>
                         StripS(for.update.val) =
                             <<"Expression",
                               Assignment(Name(<<"i">>),
                                          Infix(Name(<<"i">>), "Add", <<"Int", 1>>))>>
                   /\ for.body.kind = "Block" /\ for.body.statements = <<>>

\* C17: index and member access are infix productions: a[i] parses to the
\* single expression Index{a, i}, a.b to Member{a, b}, and they chain left
\* to right, a.b[i].c to Member{Index{Member{a, b}, i}, c}
CexC17 ==
    /\ stage # "parse" /\ input = Src_a_index_i =>
          ParsesToExpression(<<"Index", Name(<<"a">>), Name(<<"i">>)>>)
    /\ stage # "parse" /\ input = Src_a_dot_b =>
          ParsesToExpression(<<"Member", Name(<<"a">>), <<"b">>>>)
    /\ stage # "parse" /\ input = Src_a_dot_b_index_i_dot_c =>
          ParsesToExpression(
              <<"Member", <<"Index", <<"Member", Name(<<"a">>), <<"b">>>>, Name(<<"i">>)>>,
                <<"c">>>>)

\* C18: the keyword operators are infix operators: a and b parses to
\* Infix{a, LogicalAnd, b} and a or b to Infix{a, LogicalOr, b}, operators
\* distinct from the LogicalAndAlso of a && b
CexC18 ==
    /\ stage # "parse" /\ input = Src_a_and_b =>
          ParsesToExpression(Infix(Name(<<"a">>), "LogicalAnd", Name(<<"b">>)))
    /\ stage # "parse" /\ input = Src_a_or_b =>
          ParsesToExpression(Infix(Name(<<"a">>), "LogicalOr", Name(<<"b">>)))
    /\ stage # "parse" /\ input = Src_a_andalso_b =>
          ParsesToExpression(Infix(Name(<<"a">>), "LogicalAndAlso", Name(<<"b">>)))

\* the tokens of the source
SourceTokens == LexAll(input, LexerNew(input))

\* the source is x op1 y op2 z: three names joined by two operator tokens
\* that have an infix precedence
IsOperatorChain ==
    /\ Len(SourceTokens) = 5
    /\ \A i \in {1, 3, 5} : SourceTokens[i].kind = "Identifier"
    /\ \A i \in {2, 4} :
          /\ SourceTokens[i].kind = "Operator"
          /\ token_precedence(SourceTokens[i]) > Precedence.Lowest

\* the node that joins two shapes with an operator token: = builds an
\* Assignment, every other operator an Infix
Joined(left, op, right) ==
    IF op.sub = "Assign" THEN Assignment(left, right)
    ELSE Infix(left, convert_infix_operator(op.sub), right)

\* the grouping of x op1 y op2 z by the precedence ladder
LadderGrouping(toks) ==
    IF \/ token_precedence(toks[4]) > token_precedence(toks[2])
       \/ toks[2].sub = "Assign" /\ toks[4].sub = "Assign"
    THEN Joined(Name(toks[1].text), toks[2],
                Joined(Name(toks[3].text), toks[4], Name(toks[5].text)))
    ELSE Joined(Joined(Name(toks[1].text), toks[2], Name(toks[3].text)), toks[4],
                Name(toks[5].text))

\* C19: in x op1 y op2 z the middle operand groups with op2 iff the
\* precedence of op2 is strictly higher than that of op1, so operators of
\* equal precedence, ** included, group to the left; only = is
\* right-associative, and it builds an Assignment node, not an Infix
TheoremC19 ==
    stage # "parse" /\ IsOperatorChain => ParsesToExpression(LadderGrouping(SourceTokens))

\* C19 witness: x ** y ** z parsed, with the two ** grouped to the left
WitnessC19 ==
    /\ IsOperatorChain
    /\ SourceTokens[2].sub = "Power" /\ SourceTokens[4].sub = "Power"
    /\ ParsesToExpression(Infix(Infix(Name(<<"x">>), "Power", Name(<<"y">>)), "Power",
                                Name(<<"z">>)))

\* an Int literal, also under a sign; its value
IsIntOperand(e) ==
    \/ e.kind = "IntLiteral"
    \/ e.kind = "Prefix" /\ e.operator \in {"Plus", "Minus"} /\ e.right.kind = "IntLiteral"
IntOperand(e) ==
    IF e.kind = "IntLiteral" THEN e.int
    ELSE IF e.operator = "Minus" THEN 0 - e.right.int ELSE e.right.int
\* a Float literal, also under a sign
IsFloatOperand(e) ==
    \/ e.kind = "FloatLiteral"
    \/ e.kind = "Prefix" /\ e.operator \in {"Plus", "Minus"} /\ e.right.kind = "FloatLiteral"

\* the exact result of an Int operation is an i64
ExactFits(l, op, r) ==
    CASE op = "Add" -> InRange(l + r)
      [] op = "Subtract" -> InRange(l - r)
      [] op = "Multiply" -> MulFits(l, r)
      [] op = "Divide" -> r # 0
\* the exact result; the quotient truncated toward zero
Exact(l, op, r) ==
    CASE op = "Add" -> l + r
      [] op = "Subtract" -> l - r
      [] op = "Multiply" -> l * r
      [] op = "Divide" ->
            IF (l < 0) = (r < 0) THEN Abs(l) \div Abs(r) ELSE 0 - (Abs(l) \div Abs(r))

\* the program is the one expression statement L op R with numeric operands
\* and an arithmetic operator, not an Int division by zero
IsNumericInfix ==
    /\ Len(parse_result.ast.val.statements) = 1
    /\ parse_result.ast.val.statements[1].kind = "Expression"
    /\ LET e == parse_result.ast.val.statements[1].expr
       IN  /\ e.kind = "Infix"
           /\ e.operator \in {"Add", "Subtract", "Multiply", "Divide"}
           /\ IsIntOperand(e.left) \/ IsFloatOperand(e.left)
           /\ IsIntOperand(e.right) \/ IsFloatOperand(e.right)
           /\ ~(/\ IsIntOperand(e.left) /\ IsIntOperand(e.right)
                /\ e.operator = "Divide" /\ IntOperand(e.right) = 0)

\* the fold of L op R: the IntLiteral of the exact result for Int operands,
\* a FloatLiteral when an operand is a Float
C20_Folded ==
    LET e == parse_result.ast.val.statements[1].expr
        folded == norm1.statements[1].expr
    IN  /\ norm1.kind = "Program"
        /\ Len(norm1.statements) = 1
        /\ IF IsIntOperand(e.left) /\ IsIntOperand(e.right)
           THEN /\ ExactFits(IntOperand(e.left), e.operator, IntOperand(e.right))
                /\ folded.kind = "IntLiteral"
                /\ folded.int = Exact(IntOperand(e.left), e.operator, IntOperand(e.right))
           ELSE folded.kind = "FloatLiteral"

\* what holds when the exact result is an i64: the fold is exact
C20_Representable ==
    LET e == parse_result.ast.val.statements[1].expr
    IN  (/\ Normalized /\ IsNumericInfix
         /\ IsIntOperand(e.left) /\ IsIntOperand(e.right) =>
                ExactFits(IntOperand(e.left), e.operator, IntOperand(e.right))) =>
            C20_Folded

\* C20: Infix{L op R} with numeric literal operands is folded: for Int
\* operands +, - and * give the IntLiteral of the exact result and / (R not
\* 0) the quotient truncated toward zero; with a Float operand the result is
\* a FloatLiteral; the initializer 1 + 2 becomes Int 3
CexC20 ==
    /\ Normalized /\ IsNumericInfix => C20_Folded
    /\ Normalized /\ input = Src_Int_a_is_1_plus_2 =>
          /\ norm1.kind = "Program"
          /\ norm1.statements[1].declarators[1].value.some
          /\ StripE(norm1.statements[1].declarators[1].value.val) = <<"Int", 3>>

-----------------------------------------------------------------------------
(* Dead branches (normalizer.rs, normalize_statement) *)

\* the program parse_program returned
ParsedProgram == parse_result.ast.val

\* the first pass of the normalizer returned a program
NormalizedOk == Normalized /\ norm1.kind = "Program"

\* the statements normalize_statement is called on when it is called on
\* stmt: the members of a Block, the branches of an If whose condition is
\* not constant, and the branch a constant condition selects
RECURSIVE C21_Visited(_)
C21_Visited(stmt) ==
    LET Branches ==
            IF stmt.condition.kind = "Boolean"
            THEN IF stmt.condition.bool THEN {stmt.consequence}
                 ELSE IF stmt.alternative.some THEN {stmt.alternative.val} ELSE {}
            ELSE {stmt.consequence}
                 \cup (IF stmt.alternative.some THEN {stmt.alternative.val} ELSE {})
    IN  {stmt} \cup
        CASE stmt.kind = "Block" ->
                UNION {C21_Visited(stmt.statements[i]) : i \in DOMAIN stmt.statements}
          [] stmt.kind = "If" -> UNION {C21_Visited(b) : b \in Branches}
          [] OTHER -> {}

\* the normalized forms of the statements that are not dropped, in order
RECURSIVE C21_Kept(_, _)
C21_Kept(oc, stmts) ==
    LET First(r) == IF r.val.some THEN <<r.val.val>> ELSE <<>>
    IN  IF stmts = <<>> THEN <<>>
        ELSE First(normalize_statement(oc, Head(stmts))) \o C21_Kept(oc, Tail(stmts))

\* an If with a constant condition normalizes to what its selected branch
\* normalizes to, and is dropped when the condition is false without else
C21_DeadBranch(oc, stmt) ==
    stmt.kind = "If" /\ stmt.condition.kind = "Boolean" =>
        normalize_statement(oc, stmt) =
            IF stmt.condition.bool THEN normalize_statement(oc, stmt.consequence)
            ELSE IF stmt.alternative.some THEN normalize_statement(oc, stmt.alternative.val)
            ELSE Done(None)

\* an If whose condition is not constant is kept, with its normalized
\* consequence, or an empty Block when the consequence was dropped
C21_KeptIf(oc, stmt) ==
    LET Consequence(c) ==
            IF c.val.some THEN c.val.val
            ELSE [kind |-> "Block", statements |-> <<>>, span |-> stmt.consequence.span]
        Kept(r) ==
            /\ r.val.some
            /\ r.val.val.kind = "If"
            /\ r.val.val.consequence =
                   Consequence(normalize_statement(oc, stmt.consequence))
    IN  stmt.kind = "If" /\ stmt.condition.kind # "Boolean" =>
            Kept(normalize_statement(oc, stmt))

\* a Block keeps the normalized forms of the members that are not dropped
C21_Block(oc, stmt) ==
    stmt.kind = "Block" =>
        normalize_statement(oc, stmt).val.val.statements = C21_Kept(oc, stmt.statements)

-----------------------------------------------------------------------------
(* Canonical operand order (normalizer.rs, normalize_expression) *)

\* the expressions normalize_expression is called on when it is called on
\* e: the operands of an Infix and of a Prefix, the callee and the arguments
\* of a Call
RECURSIVE C22_Visited(_)
C22_Visited(e) ==
    {e} \cup
    CASE e.kind = "Infix" -> C22_Visited(e.left) \cup C22_Visited(e.right)
      [] e.kind = "Prefix" -> C22_Visited(e.right)
      [] e.kind = "Call" ->
            C22_Visited(e.function)
            \cup UNION {C22_Visited(e.arguments[i]) : i \in DOMAIN e.arguments}
      [] OTHER -> {}

\* the expressions of the top-level expression statements and what the
\* normalizer visits below them
C22_Parsed ==
    UNION {C22_Visited(ParsedProgram.statements[i].expr) :
               i \in {j \in DOMAIN ParsedProgram.statements :
                          ParsedProgram.statements[j].kind = "Expression"}}

\* the leaves of e seen as a tree of op nodes, left to right
RECURSIVE C22_Leaves(_, _)
C22_Leaves(e, op) ==
    IF e.kind = "Infix" /\ e.operator = op
    THEN C22_Leaves(e.left, op) \o C22_Leaves(e.right, op)
    ELSE <<e>>

\* e is a left-leaning chain of op: no right operand is an op node
RECURSIVE C22_LeftChain(_, _)
C22_LeftChain(e, op) ==
    e.kind = "Infix" /\ e.operator = op =>
        /\ ~(e.right.kind = "Infix" /\ e.right.operator = op)
        /\ C22_LeftChain(e.left, op)

\* how many times x occurs in the sequence s
C22_Count(x, s) == Cardinality({i \in DOMAIN s : s[i] = x})

\* the sequences a and b hold the same elements the same number of times
C22_SameBag(a, b) ==
    /\ Len(a) = Len(b)
    /\ \A i \in DOMAIN a : C22_Count(a[i], a) = C22_Count(a[i], b)

\* no element of s has a sort key below that of the element before it
C22_NonDecreasing(s) ==
    \A i \in 1..(Len(s) - 1) : ~SortKeyLess(get_sort_key(s[i + 1]), get_sort_key(s[i]))

\* what a + or * node that is not folded normalizes to
C22_Canonical(oc, e) ==
    LET numeric == {"IntLiteral", "FloatLiteral"}
        Operands(l, r) == C22_Leaves(l, e.operator) \o C22_Leaves(r, e.operator)
        Chain(n) ==
            n.kind \notin numeric =>
                /\ n.kind = "Infix" /\ n.operator = e.operator
                /\ C22_LeftChain(n, e.operator)
                /\ C22_NonDecreasing(C22_Leaves(n, e.operator))
                /\ C22_SameBag(C22_Leaves(n, e.operator),
                               Operands(normalize_expression(oc, e.left).val,
                                        normalize_expression(oc, e.right).val))
    IN  e.kind = "Infix" /\ e.operator \in {"Add", "Multiply"} =>
            Chain(normalize_expression(oc, e).val)

\* what a node of another operator that is not folded normalizes to
C22_NotReordered(oc, e) ==
    LET numeric == {"IntLiteral", "FloatLiteral"}
        Same(n) ==
            n.kind \notin numeric =>
                n = [e EXCEPT !.left = normalize_expression(oc, e.left).val,
                              !.right = normalize_expression(oc, e.right).val]
    IN  e.kind = "Infix" /\ e.operator \notin {"Add", "Multiply"} =>
            Same(normalize_expression(oc, e).val)

\* the normalized program holds the normalized expression of every
\* expression statement
C22_Applied ==
    \A i \in DOMAIN ParsedProgram.statements :
        (\A j \in 1..i : ParsedProgram.statements[j].kind = "Expression") =>
            norm1.statements[i].expr =
                normalize_expression(overflow_checks, ParsedProgram.statements[i].expr).val

\* C22: a + or * node that is not folded to a literal normalizes to a
\* left-leaning chain of its operator whose leaves are in non-decreasing
\* sort-key order and are, counted with multiplicity, the leaves of its two
\* normalized operands; a node of another operator keeps its normalized
\* operands in place.
TheoremC22 ==
    NormalizedOk =>
        /\ C22_Applied
        /\ \A e \in C22_Parsed :
               C22_Canonical(overflow_checks, e) /\ C22_NotReordered(overflow_checks, e)

\* three operands came out in another order, strictly ascending by sort key
WitnessC22 ==
    /\ NormalizedOk
    /\ Len(ParsedProgram.statements) = 1
    /\ ParsedProgram.statements[1].kind = "Expression"
    /\ ParsedProgram.statements[1].expr.kind = "Infix"
    /\ ParsedProgram.statements[1].expr.operator = "Add"
    /\ Len(C22_Leaves(ParsedProgram.statements[1].expr, "Add")) = 3
    /\ C22_Leaves(norm1.statements[1].expr, "Add")
           # C22_Leaves(ParsedProgram.statements[1].expr, "Add")
    /\ \A i \in 1..2 :
           SortKeyLess(get_sort_key(C22_Leaves(norm1.statements[1].expr, "Add")[i]),
                       get_sort_key(C22_Leaves(norm1.statements[1].expr, "Add")[i + 1]))

-----------------------------------------------------------------------------
(* Classes of the canonical order (normalizer.rs, SortKey) *)

\* the classes as claimed: 1 identifiers, 2 numeric and Boolean literals,
\* 3 everything else
C26_ClaimedClass(e) ==
    CASE e.kind = "Identifier" -> 1
      [] e.kind \in {"IntLiteral", "FloatLiteral", "Boolean"} -> 2
      [] OTHER -> 3

\* the classes with the String and null literals among the literals
C26_Class(e) ==
    CASE e.kind = "Identifier" -> 1
      [] e.kind \in {"IntLiteral", "FloatLiteral", "Boolean", "StringLiteral",
                      "NullLiteral"} -> 2
      [] OTHER -> 3

\* the text an identifier or a literal is compared by
C26_Text(e) ==
    CASE e.kind \in {"Identifier", "StringLiteral"} -> e.text
      [] e.kind = "IntLiteral" -> IntToStr(e.int)
      [] e.kind = "FloatLiteral" -> FloatToStr(e.float)
      [] e.kind = "Boolean" -> IF e.bool THEN <<"t", "r", "u", "e">>
                               ELSE <<"f", "a", "l", "s", "e">>
      [] e.kind = "NullLiteral" -> <<"n", "u", "l", "l">>

\* the elements of s of class 3, in order
C26_Others(Class(_), s) == SelectSeq(s, LAMBDA e: Class(e) = 3)

\* sorted is in the order of the classes, ascending by text inside classes
\* 1 and 2, and holds the operands of class 3 in the order collected has them
C26_Ordered(Class(_), sorted, collected) ==
    /\ \A i \in 1..(Len(sorted) - 1) :
           /\ Class(sorted[i]) <= Class(sorted[i + 1])
           /\ Class(sorted[i]) = Class(sorted[i + 1]) /\ Class(sorted[i]) < 3 =>
                  ~StrLess(C26_Text(sorted[i + 1]), C26_Text(sorted[i]))
    /\ C26_Others(Class, sorted) = C26_Others(Class, collected)

\* the leaves of every + or * node that is not folded are in the order of
\* the classes
C26_Sorted(Class(_)) ==
    LET numeric == {"IntLiteral", "FloatLiteral"}
        Chain(e, n, l, r) ==
            n.kind \notin numeric =>
                C26_Ordered(Class, C22_Leaves(n, e.operator),
                            C22_Leaves(l, e.operator) \o C22_Leaves(r, e.operator))
    IN  \A e \in C22_Parsed :
            e.kind = "Infix" /\ e.operator \in {"Add", "Multiply"} =>
                Chain(e, normalize_expression(overflow_checks, e).val,
                      normalize_expression(overflow_checks, e.left).val,
                      normalize_expression(overflow_checks, e.right).val)

\* C26 as claimed: identifiers in ascending order come before the numeric
\* and Boolean literals in ascending order of their text, which come before
\* everything else, and all other operands, String literals and null
\* included, keep their relative order.
CexC26 == NormalizedOk => C26_Sorted(C26_ClaimedClass)

\* C26 as amended: identifiers in ascending order come before the Int,
\* Float, String, Boolean and null literals in ascending order of their
\* text, which come before everything else, and the operands that are
\* neither identifiers nor literals keep their relative order.
TheoremC26 == NormalizedOk => C26_Sorted(C26_Class)

\* a String literal written after a call came out before it
WitnessC26 ==
    /\ NormalizedOk
    /\ Len(ParsedProgram.statements) = 1
    /\ ParsedProgram.statements[1].kind = "Expression"
    /\ ParsedProgram.statements[1].expr.kind = "Infix"
    /\ ParsedProgram.statements[1].expr.operator = "Add"
    /\ ParsedProgram.statements[1].expr.left.kind = "Call"
    /\ ParsedProgram.statements[1].expr.right.kind = "StringLiteral"
    /\ norm1.statements[1].expr.left.kind = "StringLiteral"
    /\ norm1.statements[1].expr.right.kind = "Call"

-----------------------------------------------------------------------------
(* Spans of a rebuilt chain (normalizer.rs, rebuild_tree) *)

\* the spans of the op nodes on the left spine of e
RECURSIVE C27_ChainSpans(_, _)
C27_ChainSpans(e, op) ==
    IF e.kind = "Infix" /\ e.operator = op
    THEN {e.span} \cup C27_ChainSpans(e.left, op)
    ELSE {}

\* C27: every Infix node of the chain a + or * node is rebuilt into carries
\* the span of that node.
CexC27 ==
    LET numeric == {"IntLiteral", "FloatLiteral"}
        Rebuilt(e, n) ==
            n.kind \notin numeric => C27_ChainSpans(n, e.operator) = {e.span}
    IN  NormalizedOk =>
            \A e \in C22_Parsed :
                e.kind = "Infix" /\ e.operator \in {"Add", "Multiply"} =>
                    Rebuilt(e, normalize_expression(overflow_checks, e).val)

-----------------------------------------------------------------------------
(* Descent into the children of an expression (normalizer.rs) *)

\* the expression e and every expression below it
RECURSIVE C28_Nodes(_)
C28_Nodes(e) == {e} \cup UNION {C28_Nodes(ChildNodes(e)[i]) : i \in 1..Len(ChildNodes(e))}

\* a node the normalizer does not rewrite comes out with every child
\* normalized
C28_Descends(oc, e) ==
    LET Child(n, c) == ~c.panicked => n = c.val
    IN  e.kind \in {"Assignment", "ArrayLiteral", "ObjectLiteral", "Index", "Member"} =>
            \A i \in 1..Len(ChildNodes(e)) :
                Child(ChildNodes(normalize_expression(oc, e).val)[i],
                      normalize_expression(oc, ChildNodes(e)[i]))

\* C28: the children of every expression node are normalized before the
\* node: an Assignment, an ArrayLiteral, an ObjectLiteral, an Index or a
\* Member of an expression statement comes out with its children
\* normalized, so that x = 1 + 2 becomes x = 3.
CexC28 ==
    NormalizedOk =>
        \A i \in DOMAIN ParsedProgram.statements :
            ParsedProgram.statements[i].kind = "Expression" =>
                \A e \in C28_Nodes(ParsedProgram.statements[i].expr) :
                    C28_Descends(overflow_checks, e)

-----------------------------------------------------------------------------
(* Error recovery of parse_program (parser.rs) *)

\* an iteration in which parse_statement fails appends the diagnostic and
\* leaves the parser on the token after the one the error was raised on
C23_Resumes ==
    LET Resumed(r, n) ==
            /\ parser_state'.errors = Append(r.p.errors, r.val)
            /\ n.cur_token.kind # "Eof" =>
                   /\ parser_state'.cur_token = n.cur_token
                   /\ parser_state'.peek_token = n.peek_token
        Raised(r) ==
            ~r.ok /\ ~r.p.lexer.panicked => Resumed(r, Parser_next_token(Lexed, r.p))
    IN  ParseRunning /\ parser_state' # parser_state =>
            Raised(parse_statement(Lexed, parser_state))

\* C23: in an iteration of the statement loop in which parse_statement
\* fails, the diagnostic is appended and the loop goes on at the token that
\* follows the one that was current when the error was raised (unless that
\* token is Eof, which ends the loop): no token is passed over.
CexC23 == [][C23_Resumes]_vars

-----------------------------------------------------------------------------
(* The for-each probe (parser.rs, is_for_each_loop) *)

\* the loop is about to parse a statement that starts with for and (
C24_AtFor ==
    /\ ParseRunning
    /\ parser_state.cur_token.kind = "Keyword" /\ parser_state.cur_token.sub = "for"
    /\ peek_token_is(parser_state, "Delimiter", "LParen")

\* the parser when parse_for_statement calls the probe: on the first token
\* after the parenthesis
C24_Probed == Parser_next_token(Lexed, Parser_next_token(Lexed, parser_state))

\* the j-th token of the source
C24_Token(j) == Lexed[j].tok

\* the parenthesis depth after the tokens from..j, 1 before the first
C24_ParenDepth(from, j) ==
    1 + Cardinality({k \in from..j : C24_Token(k).kind = "Delimiter"
                                      /\ C24_Token(k).sub = "LParen"})
      - Cardinality({k \in from..j : C24_Token(k).kind = "Delimiter"
                                      /\ C24_Token(k).sub = "RParen"})

\* from the token from on, a keyword in or of is met at depth 1 before any
\* semicolon, before the depth returns to 0 and before Eof
C24_ForEach(from) ==
    \E j \in from..Len(Lexed) :
        /\ C24_Token(j).kind = "Keyword" /\ C24_Token(j).sub \in {"in", "of"}
        /\ C24_ParenDepth(from, j - 1) = 1
        /\ \A k \in from..(j - 1) :
               /\ ~(C24_Token(k).kind = "Delimiter" /\ C24_Token(k).sub = "Semicolon")
               /\ C24_Token(k).kind # "Eof"
               /\ C24_ParenDepth(from, k) > 0

\* C24: the probe, when the lexer delivers the tokens it scans, answers
\* for-each iff a keyword in or of is met at depth 1 before any semicolon,
\* before the depth returns to 0 and before Eof, and C-style for otherwise.
TheoremC24 ==
    LET Classified(n, k) ==
            k.each # "panic" =>
                /\ k.each \in {"true", "false"}
                /\ k.each = "true" <=> C24_ForEach(n.calls - 1)
        Probe(n) == Classified(n, is_for_each_loop(Lexed, n))
    IN  C24_AtFor => Probe(C24_Probed)

\* the probe passes an opening parenthesis first and answers for-each
WitnessC24 ==
    /\ C24_AtFor
    /\ is_for_each_loop(Lexed, C24_Probed).each = "true"
    /\ C24_Token(C24_Probed.calls - 1).kind = "Delimiter"
    /\ C24_Token(C24_Probed.calls - 1).sub = "LParen"

-----------------------------------------------------------------------------
(* Termination of parse_program (parser.rs) *)

\* an iteration of the statement loop fetches at least one token
C29_Advances ==
    ParseRunning => ProgramStep(Lexed, parser_state, parsed).p.calls > parser_state.calls

\* parse_program has returned with cur_token on Eof
C29_Returned ==
    /\ stage # "parse"
    /\ parse_result.kind = "Returned"
    /\ parser_state.cur_token.kind = "Eof"

\* C29: with a lexer that returns Eof once the input is exhausted, every
\* iteration of the statement loop, whatever loops run inside it, ends and
\* advances the token buffer by at least one token, and the parse
\* eventually returns with cur_token on Eof.
TheoremC29 ==
    /\ []C29_Advances
    /\ (~parser_state.lexer.panicked) ~> (C29_Returned \/ parser_state.lexer.panicked)

\* the parse has returned from a source that ends inside a class body, where
\* the member loop met Eof
WitnessC29 ==
    /\ C29_Returned
    /\ raised # <<>>
    /\ raised[Len(raised)].code = "SF0011"
    /\ parser_state.calls > 4

-----------------------------------------------------------------------------
(* Blocks and their closing brace (parser.rs, parse_block_statement) *)

\* how many tokens of the source are the delimiter sub
C30_Delimiters(sub) ==
    Cardinality({i \in DOMAIN SourceTokens :
                     SourceTokens[i].kind = "Delimiter" /\ SourceTokens[i].sub = sub})

\* C30: when the parser returns an AST every opening brace of the source
\* has its closing brace: a Block is built only once its closing brace is
\* consumed, and a block still open at Eof makes the parse fail.
CexC30 == ParsedOk => C30_Delimiters("LBrace") = C30_Delimiters("RBrace")

====
